---- MODULE Spec2Model ----
(***************************************************************************)
(* Model of the documentation generator of create-cursor-mcp               *)
(* (template/scripts/docgen-acorn.ts and its earlier acorn-walk revision). *)
(*                                                                         *)
(* Source text is modelled as a sequence of lexical tokens chosen so that  *)
(* every character class of the generator's regular expressions is a set   *)
(* of whole tokens: a quote character, a run of text without quotes, a     *)
(* comma, a brace, `name:`, `z.type()`, `.optional()`, `.describe("x")`    *)
(* and so on.  The regular expressions are then matched over tokens the    *)
(* way the JavaScript engine matches them over characters (leftmost start, *)
(* greedy and lazy quantifiers).  A string VALUE is the token sequence     *)
(* standing between its quotes.                                            *)
(***************************************************************************)
EXTENDS Integers, Sequences, FiniteSets, TLC

VARIABLES
    code,       \* the input source file: <<tokens>> when readable, <<>> when not
    calls,      \* what the author wrote in the input file, call site by call site
    docs,       \* dist/docs.json: <<>> when absent, <<document>> when present
    pc,         \* position of the generator script
    revision,   \* which revision of docgen-acorn.ts is installed: "segments"
                \* (template/scripts/docgen-acorn.ts), "walk" or "walkOnly"
                \* (the two acorn-walk revisions, with and without addWorkerEntrypoint)
    exitCode,   \* exit code of the process (0 while running or on normal end)
    stderr,     \* sequence of console.error reports of the run
    tempJs,     \* temp-preprocessed.js: <<>> when absent, <<text>> when present
    discover,   \* the discover script: "none" before it runs, then "ok" or "failed"
    stdout,     \* console.log lines of the run that tell what the generator did
    runs,       \* how many times the generator script has been started
    prev,       \* <<>> in the first run, then <<the project as the run found it>>
    schema,     \* a schema object literal handed to the parameter extractors
    astParams,  \* result of the structural analyzer on schema
    rxParams,   \* result of the text fallback on schema
    ran,        \* which extractors have been applied to schema
    rxLog,      \* what each call of extractParamsWithRegex on schema returned
    zodLog,     \* what each call of parseZodSchema on schema returned
    discoverExit,  \* exit code of the discover script (0 while running or on normal end)
    discoverErr,   \* sequence of console.error reports of the discover script
    fetched,       \* what the discover script got from fetch: "none" before it
                   \* runs, "notFetched" without a URL, else the kind of response
    argv,       \* command line of the CLI: --name, --clone, --skip-deploy
    env,        \* environment: SKIP_DEPLOY, PREFERRED_PM, npm_package_name
    cliPc,      \* position of main() of cli.ts
    details,    \* <<>>, then <<what getProjectDetails returned>>
    executed,   \* the commands handed to execSync, in order, each with its outcome
    prompted,   \* the interactive prompts issued, in order
    cliOut,     \* what the CLI (or print-mcp-json) printed with console.log
    cliErr,     \* console.error reports of the CLI (or print-mcp-json)
    cliExit,    \* exit code of the CLI (or print-mcp-json)
    rejected,   \* the promise of setupMCPAndWorkers was rejected and nobody awaits it
    locals,     \* main's execPath / customWorkerUrl once they are set: <<>> or <<record>>
    pkg,        \* package.json of the project directory: <<>> or <<object>>
    wrangler,   \* wrangler.jsonc of the project directory, as text
    readme,     \* README.md of the project directory, as text
    updates,    \* how many times updateConfigurations was applied to the directory
    first,      \* <<>>, then <<the three files after the first application>>
    printArgv,  \* process.argv[2] of print-mcp-json: <<>> or <<url>>
    printRevision, \* which print-mcp-json is installed: "current" or "required-url"
    cwd,        \* working directory of print-mcp-json
    printPc     \* position of the print-mcp-json script

vars == <<code, calls, docs, pc, revision, exitCode, stderr, tempJs, discover, stdout,
          runs, prev, schema, astParams, rxParams, ran, rxLog, zodLog,
          discoverExit, discoverErr, fetched, argv, env, cliPc, details, executed, prompted,
          cliOut, cliErr, cliExit, rejected, locals, pkg, wrangler, readme, updates,
          first, printArgv, printRevision, cwd, printPc>>

fileVars == <<code, calls, docs, pc, revision, exitCode, stderr, tempJs, discover, stdout,
              runs, prev>>
paramVars == <<schema, astParams, rxParams, ran, rxLog, zodLog>>
discVars == <<discoverExit, discoverErr, fetched>>
cliVars == <<argv, env, cliPc, details, executed, prompted, cliOut, cliErr, cliExit,
             rejected, locals>>
configVars == <<pkg, wrangler, readme, updates, first>>
printVars == <<printArgv, printRevision, cwd, printPc>>

----------------------------------------------------------------------------
(* Bounds of the model *)

MaxCalls == 2
MaxProps == 2
MaxMods == 2
MaxDiscovered == 1
MaxRuns == 2
MaxRegexCalls == 2
MaxPieces == 3
MaxUpdates == 2

----------------------------------------------------------------------------
(* Tokens *)

Tok(k, v) == [k |-> k, v |-> v]

HEAD  == Tok("head", "this.server.tool(")
Q     == Tok("q", "'")
COMMA == Tok("comma", ",")
LB    == Tok("lb", "{")
RB    == Tok("rb", "}")
ASYNC == Tok("async", "async")
FN    == Tok("fn", "(args) => result")
RP    == Tok("rp", ")")
OPT   == Tok("opt", ".optional()")
MOD   == Tok("mod", ".min(1)")
TS    == Tok("ts", " as any")

\* a run of text holding no quote, brace or comma
Txt(s) == Tok("txt", s)
\* `name:` and `"name":`, the key of a property
Key(n) == Tok("key", n)
SKey(n) == Tok("skey", n)
\* `z.t()`, `z.t(args)` and `other.t()`: the innermost call of a chain
Z(t) == Tok("z", t)
ZArg(t) == Tok("zarg", t)
ZZ(t) == Tok("zz", t)
\* `.describe("s")`
Describe(s) == Tok("desc", s)
\* a value that is no call: a number or an identifier
Plain(s) == Tok("plain", s)

\* the value of a one-piece string
Str(s) == <<Txt(s)>>
\* JavaScript's undefined, where a string may stand
Undefined == <<Tok("undefined", "")>>

Range(s) == {s[i] : i \in 1..Len(s)}

RECURSIVE SeqsUpTo(_, _)
SeqsUpTo(S, n) ==
    IF n = 0 THEN {<<>>}
    ELSE LET shorter == SeqsUpTo(S, n - 1)
         IN shorter \cup {Append(s, x) : s \in {t \in shorter : Len(t) = n - 1}, x \in S}

----------------------------------------------------------------------------
(* Schema object literals: what the author wrote, and its text *)

\* A property as written: its key, whether the key is a quoted string, and the
\* tokens of its value (the innermost call first, then the chained calls).
Prop(k, quoted, value) == [key |-> k, quoted |-> quoted, value |-> value]

PropToks(p) == <<IF p.quoted THEN SKey(p.key) ELSE Key(p.key)>> \o p.value

RECURSIVE JoinProps(_)
JoinProps(props) ==
    IF props = <<>> THEN <<>>
    ELSE IF Len(props) = 1 THEN PropToks(props[1])
    ELSE PropToks(props[1]) \o <<COMMA>> \o JoinProps(Tail(props))

\* the text of the object literal `{ p1, p2, ... }`
SchemaToks(props) == <<LB>> \o JoinProps(props) \o <<RB>>

IsKey(t) == t.k \in {"key", "skey"}
IsBase(t) == t.k \in {"z", "zarg", "zz"}
IsMod(t) == t.k \in {"opt", "desc", "mod"}

----------------------------------------------------------------------------
(* acorn's parse of `const schema = <schemaText>` *)

ParseFail == [ok |-> FALSE, props |-> <<>>]

\* last token of the call chain that starts at toks[i]
RECURSIVE ChainEnd(_, _)
ChainEnd(toks, i) ==
    IF i + 1 <= Len(toks) /\ IsMod(toks[i + 1]) THEN ChainEnd(toks, i + 1) ELSE i

\* An AST Property node: key.name (or key.value), key.type and the value
\* expression, a chain of CallExpressions or another expression.
AstProp(keyTok, value) ==
    [key |-> keyTok.v,
     keyType |-> IF keyTok.k = "skey" THEN "Literal" ELSE "Identifier",
     value |-> value]

RECURSIVE ParseProps(_, _, _)
ParseProps(toks, i, acc) ==
    IF i > Len(toks) THEN ParseFail
    ELSE IF toks[i] = RB
         THEN IF i = Len(toks) THEN [ok |-> TRUE, props |-> acc] ELSE ParseFail
    ELSE IF IsKey(toks[i]) /\ i + 1 <= Len(toks)
            /\ (IsBase(toks[i + 1]) \/ toks[i + 1].k = "plain")
         THEN LET j == IF IsBase(toks[i + 1]) THEN ChainEnd(toks, i + 1) ELSE i + 1
                  prop == AstProp(toks[i], SubSeq(toks, i + 1, j))
              IN  IF j + 1 > Len(toks) THEN ParseFail
                  ELSE IF toks[j + 1] = COMMA
                       THEN ParseProps(toks, j + 2, Append(acc, prop))
                  ELSE IF toks[j + 1] = RB
                       THEN ParseProps(toks, j + 1, Append(acc, prop))
                  ELSE ParseFail
    ELSE ParseFail

\* parse(parseableSchema, ...): the ObjectExpression's properties, or a throw
parse(schemaText) ==
    IF Len(schemaText) >= 2 /\ schemaText[1] = LB
    THEN ParseProps(schemaText, 2, <<>>)
    ELSE ParseFail

----------------------------------------------------------------------------
(* extractSchemaParams: the structural analyzer *)

\* callee.property.name of a call of a chain
MethodName(t) ==
    CASE t.k = "opt" -> "optional"
      [] t.k = "desc" -> "describe"
      [] t.k = "mod" -> "min"
      [] OTHER -> t.v

\* callee.object of the call at place i of a chain: the call before it, or for
\* the innermost call the identifier it is called on
CalleeObjectIsCall(value, i) == i > 1

\* the first loop: walk from the outermost call down to the innermost call
RECURSIVE BaseExpr(_, _)
BaseExpr(value, i) ==
    IF CalleeObjectIsCall(value, i) THEN BaseExpr(value, i - 1) ELSE i

\* a type recovery that looks at the outermost call of the chain
ParamType_OfOutermostCall(value) ==
    LET b == value[Len(value)]
    IN  IF b.k \in {"z", "zarg"} THEN Str(b.v)
        ELSE IF IsMod(b) THEN Str(MethodName(b))
        ELSE Str("unknown")

\* paramType: the method name of the innermost call when it is called on `z`
ParamType(value) ==
    LET b == value[BaseExpr(value, Len(value))]
    IN  IF b.k \in {"z", "zarg"} THEN Str(b.v) ELSE Str("unknown")

\* a chain walk that looks at the outermost call only
ChainWalk_OutermostOnly(value, i, st) ==
    [optional |-> value[i].k = "opt",
     description |-> IF value[i].k = "desc" THEN Str(value[i].v) ELSE Undefined]

\* a chain walk that gives up at the first call it does not know
RECURSIVE ChainWalk_StopsAtUnrecognized(_, _, _)
ChainWalk_StopsAtUnrecognized(value, i, st) ==
    IF i < 1 \/ value[i].k = "mod" THEN st
    ELSE ChainWalk_StopsAtUnrecognized(value, i - 1,
             [optional |-> st.optional \/ value[i].k = "opt",
              description |-> IF value[i].k = "desc" THEN Str(value[i].v)
                              ELSE st.description])

\* the second loop: from the outermost call down, note .optional() and
\* .describe(<literal>)
RECURSIVE ChainWalk(_, _, _)
ChainWalk(value, i, st) ==
    IF i < 1 THEN st
    ELSE LET t == value[i]
             o == IF MethodName(t) = "optional" THEN TRUE ELSE st.optional
             d == IF MethodName(t) = "describe" /\ t.k = "desc"
                  THEN Str(t.v) ELSE st.description
         IN  ChainWalk(value, i - 1, [optional |-> o, description |-> d])

IsCallExpression(value) == Len(value) >= 1 /\ IsBase(value[1])

\* the Param pushed for one Property node
SchemaParam(prop) ==
    LET call == IsCallExpression(prop.value)
        st == IF call
              THEN ChainWalk(prop.value, Len(prop.value),
                             [optional |-> FALSE, description |-> Undefined])
              ELSE [optional |-> FALSE, description |-> Undefined]
    IN  [name |-> Str(prop.key),
         type |-> IF call THEN ParamType(prop.value) ELSE Str("unknown"),
         description |-> st.description,
         optional |-> st.optional]

RECURSIVE SchemaParamsLoop(_)
SchemaParamsLoop(props) ==
    IF props = <<>> THEN <<>>
    ELSE IF Head(props).keyType # "Identifier"
         THEN SchemaParamsLoop(Tail(props))
    ELSE <<SchemaParam(Head(props))>> \o SchemaParamsLoop(Tail(props))

extractSchemaParams(schemaAst) == SchemaParamsLoop(schemaAst.props)

----------------------------------------------------------------------------
(* extractParamsWithRegex: the text fallback                               *)
(* /(\w+):\s*z\.(\w+)\(\)(?:\.optional\(\))?(?:\.describe\(["']([^"']+)["']\))?/g *)

\* does the pattern match with its `(\w+):` at token i
ParamRegexAt(toks, i) ==
    /\ i + 1 <= Len(toks)
    /\ toks[i].k = "key"
    /\ toks[i + 1].k = "z"

\* last token of the match that starts at i
ParamRegexEnd(toks, i) ==
    LET a == IF i + 2 <= Len(toks) /\ toks[i + 2] = OPT THEN i + 2 ELSE i + 1
    IN  IF a + 1 <= Len(toks) /\ toks[a + 1].k = "desc" /\ toks[a + 1].v # ""
        THEN a + 1 ELSE a

RegexParam(toks, i) ==
    LET e == ParamRegexEnd(toks, i)
        m == SubSeq(toks, i, e)
    IN  [name |-> Str(toks[i].v),
         type |-> Str(toks[i + 1].v),
         description |-> IF m[Len(m)].k = "desc" THEN Str(m[Len(m)].v) ELSE Undefined,
         optional |-> OPT \in Range(m)]

RECURSIVE ParamsWithRegexFrom(_, _)
ParamsWithRegexFrom(toks, i) ==
    IF i > Len(toks) THEN <<>>
    ELSE IF ParamRegexAt(toks, i)
         THEN <<RegexParam(toks, i)>> \o ParamsWithRegexFrom(toks, ParamRegexEnd(toks, i) + 1)
    ELSE ParamsWithRegexFrom(toks, i + 1)

\* one exec per call on a pattern object that outlives the call: the n-th
\* call returns the n-th match
extractParamsWithRegex_OneExecPerCall(schemaText) ==
    LET all == ParamsWithRegexFrom(schemaText, 1)
        n == Len(rxLog) + 1
    IN  IF n <= Len(all) THEN <<all[n]>> ELSE <<>>

\* paramRegex is created by the call, so lastIndex is 0 at the first exec, and
\* the loop runs until exec returns null
extractParamsWithRegex(schemaText) == ParamsWithRegexFrom(schemaText, 1)

\* parseZodSchema: /(\w+)\s*:\s*z\.(\w+)\(\)/g
RECURSIVE ParseZodSchemaFrom(_, _)
ParseZodSchemaFrom(toks, i) ==
    IF i + 1 > Len(toks) THEN <<>>
    ELSE IF toks[i].k = "key" /\ toks[i + 1].k = "z"
         THEN <<[name |-> Str(toks[i].v), type |-> Str(toks[i + 1].v)]>>
                  \o ParseZodSchemaFrom(toks, i + 2)
    ELSE ParseZodSchemaFrom(toks, i + 1)

parseZodSchema(schemaText) == ParseZodSchemaFrom(schemaText, 1)

----------------------------------------------------------------------------
(* JSON.stringify of a Param: a field that is undefined is left out *)

\* a serializer that writes an undefined field
StringifyParam_KeepUndefined(p) == p

StringifyParam(p) ==
    IF "description" \in DOMAIN p /\ p.description = Undefined
    THEN [name |-> p.name, type |-> p.type, optional |-> p.optional]
    ELSE p

StringifyParams(ps) == [i \in 1..Len(ps) |-> StringifyParam(ps[i])]

----------------------------------------------------------------------------
(* Schema object literals the extractors are applied to *)

KeyNames == <<"a", "b", "c", "d", "e">>

Bases == {Z("number"), ZArg("enum"), ZZ("string")}
Mods == {OPT, Describe("First"), MOD}

Shape(quoted, value) == [quoted |-> quoted, value |-> value]

\* every call chain of up to MaxMods chained calls, and a value that is no call
ChainShapes ==
    {Shape(FALSE, <<b>> \o m) : b \in Bases, m \in SeqsUpTo(Mods, MaxMods)}
        \cup {Shape(FALSE, <<Plain("5")>>)}

\* the property shapes that may stand beside a chain: a bare type, a described
\* type, a quoted key, and a value cast with TypeScript's `as`
SimpleShapes ==
    {Shape(FALSE, <<Z("string")>>),
     Shape(FALSE, <<Z("number"), Describe("Second")>>),
     Shape(TRUE, <<Z("number")>>),
     Shape(FALSE, <<Z("string"), TS>>)}

InsertAt(s, i, x) == SubSeq(s, 1, i - 1) \o <<x>> \o SubSeq(s, i, Len(s))

\* the shape sequences of length n: simple shapes, at most one of them
\* replaced by a chain
ShapeSeqs(n) ==
    [1..n -> SimpleShapes]
        \cup (IF n = 0 THEN {}
              ELSE {InsertAt(s, i, x) : s \in [1..(n - 1) -> SimpleShapes],
                                        i \in 1..n, x \in ChainShapes})

PropsOf(shapes) ==
    [i \in 1..Len(shapes) |-> Prop(KeyNames[i], shapes[i].quoted, shapes[i].value)]

Schemas == UNION {{PropsOf(s) : s \in ShapeSeqs(n)} : n \in 0..MaxProps}

----------------------------------------------------------------------------
(* The parameter extractors applied to one schema object literal *)

\* the discover script has not run
DiscoverIdle ==
    /\ discoverExit = 0
    /\ discoverErr = <<>>
    /\ fetched = "none"

\* no CLI run
CliIdle ==
    /\ argv = [name |-> "", clone |-> "", skipDeploy |-> FALSE]
    /\ env = [SKIP_DEPLOY |-> "", PREFERRED_PM |-> "", npm_package_name |-> ""]
    /\ cliPc = "none"
    /\ details = <<>>
    /\ executed = <<>>
    /\ prompted = <<>>
    /\ cliOut = <<>>
    /\ cliErr = <<>>
    /\ cliExit = 0
    /\ rejected = FALSE
    /\ locals = <<>>

\* no project directory
ConfigIdle ==
    /\ pkg = <<>>
    /\ wrangler = <<>>
    /\ readme = <<>>
    /\ updates = 0
    /\ first = <<>>

\* print-mcp-json has not been started
PrintIdle ==
    /\ printArgv = <<>>
    /\ printRevision = "current"
    /\ cwd = ""
    /\ printPc = "none"

FileIdle ==
    /\ code = <<>>
    /\ calls = <<>>
    /\ docs = <<>>
    /\ pc = "idle"
    /\ revision = "segments"
    /\ exitCode = 0
    /\ stderr = <<>>
    /\ tempJs = <<>>
    /\ discover = "none"
    /\ stdout = <<>>
    /\ runs = 1
    /\ prev = <<>>

InitParams ==
    /\ FileIdle
    /\ DiscoverIdle
    /\ CliIdle
    /\ ConfigIdle
    /\ PrintIdle
    /\ schema \in Schemas
    /\ astParams = <<>>
    /\ rxParams = <<>>
    /\ ran = {}
    /\ rxLog = <<>>
    /\ zodLog = <<>>

\* lines 184-192 of extractToolInfo: the schema text parses and the analyzer
\* walks the tree
ExtractSchemaParams ==
    /\ "ast" \notin ran
    /\ parse(SchemaToks(schema)).ok
    /\ astParams' = extractSchemaParams(parse(SchemaToks(schema)))
    /\ ran' = ran \cup {"ast"}
    /\ UNCHANGED <<schema, rxParams, rxLog, zodLog>>
    /\ UNCHANGED <<fileVars, discVars, cliVars, configVars, printVars>>

\* one call of extractParamsWithRegex; the function can be called again and
\* again on the same text
ExtractParamsWithRegex ==
    /\ Len(rxLog) < MaxRegexCalls
    /\ rxParams' = extractParamsWithRegex(SchemaToks(schema))
    /\ rxLog' = Append(rxLog, rxParams')
    /\ ran' = ran \cup {"regex"}
    /\ UNCHANGED <<schema, astParams, zodLog>>
    /\ UNCHANGED <<fileVars, discVars, cliVars, configVars, printVars>>

\* one call of parseZodSchema, the text fallback of the acorn-walk revisions
ParseZodSchema ==
    /\ Len(zodLog) < MaxRegexCalls
    /\ zodLog' = Append(zodLog, parseZodSchema(SchemaToks(schema)))
    /\ UNCHANGED <<schema, astParams, rxParams, ran, rxLog>>
    /\ UNCHANGED <<fileVars, discVars, cliVars, configVars, printVars>>

NextParams == ExtractSchemaParams \/ ExtractParamsWithRegex \/ ParseZodSchema

SpecParams == InitParams /\ [][NextParams]_vars

----------------------------------------------------------------------------
(* Claims about the parameter extractors (checked under SpecParams) *)

HasParam(ps, k) == \E j \in 1..Len(ps) : ps[j].name = Str(k)
ParamNamed(ps, k) == ps[CHOOSE j \in 1..Len(ps) : ps[j].name = Str(k)]

\* `key: z.T()` or `key: z.T().describe("s")`
C3_Shape(p) ==
    /\ ~p.quoted
    /\ p.value[1].k = "z"
    /\ \/ Len(p.value) = 1
       \/ Len(p.value) = 2 /\ p.value[2].k = "desc"

C3_Expected(p) ==
    IF Len(p.value) = 2
    THEN [name |-> Str(p.key), type |-> Str(p.value[1].v),
          description |-> Str(p.value[2].v), optional |-> FALSE]
    ELSE [name |-> Str(p.key), type |-> Str(p.value[1].v), optional |-> FALSE]

C4_Chain(p) == ~p.quoted /\ IsBase(p.value[1])

C4_BaseType(p) ==
    IF p.value[1].k \in {"z", "zarg"} THEN Str(p.value[1].v) ELSE Str("unknown")

C5_Shape(p) ==
    /\ ~p.quoted
    /\ p.value[1].k = "z"
    /\ \A j \in 2..Len(p.value) : p.value[j].k \in {"opt", "desc"}
    /\ \A j, l \in 2..Len(p.value) : j # l => p.value[j].k # p.value[l].k

\* C5: on properties `key: z.T()` followed by .optional() and/or
\* .describe("s") in either order, the text fallback returns the records the
\* structural analyzer returns.
C5_RegexAgreesWithAst ==
    (ran = {"ast", "regex"} /\ \A i \in 1..Len(schema) : C5_Shape(schema[i]))
        => rxParams = astParams

\* C8: the params list holds one record per property of the schema object, in
\* the order of the properties, on the structural and on the fallback path.
C8_OneParamPerProperty ==
    /\ "ast" \in ran =>
           [j \in 1..Len(astParams) |-> astParams[j].name]
               = [i \in 1..Len(schema) |-> Str(schema[i].key)]
    /\ "regex" \in ran =>
           [j \in 1..Len(rxParams) |-> rxParams[j].name]
               = [i \in 1..Len(schema) |-> Str(schema[i].key)]

NotMod(t) == t.k # "mod"

\* the schema object with the calls other than .optional() and .describe()
\* taken out of every chain
WithoutUnrecognized(props) ==
    [i \in 1..Len(props) |->
        Prop(props[i].key, props[i].quoted, SelectSeq(props[i].value, NotMod))]

\* C14: chained calls other than .optional() and .describe() are ignored: the
\* schema parses when it parses without them, and the structural analyzer
\* returns for it the records it returns for the schema without them.
C14_UnrecognizedIgnored ==
    /\ parse(SchemaToks(WithoutUnrecognized(schema))).ok => parse(SchemaToks(schema)).ok
    /\ "ast" \in ran
           => astParams
                  = extractSchemaParams(parse(SchemaToks(WithoutUnrecognized(schema))))

\* .optional().min(1): the unrecognized call is the outermost of the chain
C14_Witness ==
    /\ "ast" \in ran
    /\ \E i \in 1..Len(schema) :
           /\ schema[i].value = <<Z("number"), OPT, MOD>>
           /\ ParamNamed(astParams, schema[i].key).optional
           /\ ParamNamed(astParams, schema[i].key).type = Str("number")

NoMatchingProperty ==
    \A i \in 1..Len(schema) :
        schema[i].quoted \/ schema[i].value = <<>> \/ schema[i].value[1].k # "z"

----------------------------------------------------------------------------
(* Matching the generator's regular expressions over tokens *)

EOT == Tok("eot", "")
At(toks, i) == IF i >= 1 /\ i <= Len(toks) THEN toks[i] ELSE EOT

\* index of the first quote at or after i, 0 when there is none
RECURSIVE NextQuote(_, _)
NextQuote(toks, i) ==
    IF i > Len(toks) THEN 0
    ELSE IF toks[i] = Q THEN i
    ELSE NextQuote(toks, i + 1)

\* ["']([^"']+)["'] at i: the index of the closing quote, 0 when no match
QuotedAt(toks, i) ==
    IF At(toks, i) # Q THEN 0
    ELSE LET j == NextQuote(toks, i + 1)
         IN  IF j > i + 1 THEN j ELSE 0

\* ["'][^"']*["'] at i: the index of the closing quote, 0 when no match
QuotedOrEmptyAt(toks, i) ==
    IF At(toks, i) # Q THEN 0 ELSE NextQuote(toks, i + 1)

\* ({[\s\S]+?}),\s*async with its `{` at lb: the index of the `}` the lazy
\* quantifier stops at, 0 when no match.  [\s\S]+? takes at least one character.
RECURSIVE LazyBraceEnd(_, _)
LazyBraceEnd(toks, j) ==
    IF j + 2 > Len(toks) THEN 0
    ELSE IF toks[j] = RB /\ toks[j + 1] = COMMA /\ toks[j + 2] = ASYNC THEN j
    ELSE LazyBraceEnd(toks, j + 1)

SchemaObjectAt(toks, lb) ==
    IF At(toks, lb) # LB THEN 0 ELSE LazyBraceEnd(toks, lb + 2)

----------------------------------------------------------------------------
(* extractToolSegments                                                      *)
(* /this\.server\.tool\(\s*["']([^"']+)["'](?:\s*,\s*["']([^"']+)["'])?     *)
(*  (?:\s*,\s*({[\s\S]+?})),\s*async/g                                      *)

\* the index of the last token of the match that starts at i, 0 when the
\* pattern does not match there
ToolRegexAt(toks, i) ==
    IF At(toks, i) # HEAD THEN 0
    ELSE LET n == QuotedAt(toks, i + 1)
             d == IF n # 0 /\ At(toks, n + 1) = COMMA THEN QuotedAt(toks, n + 2) ELSE 0
             withDesc == IF d # 0 /\ At(toks, d + 1) = COMMA
                         THEN SchemaObjectAt(toks, d + 2) ELSE 0
             without == IF n # 0 /\ At(toks, n + 1) = COMMA
                        THEN SchemaObjectAt(toks, n + 2) ELSE 0
         IN  IF withDesc # 0 THEN withDesc + 2
             ELSE IF without # 0 THEN without + 2
             ELSE 0

RECURSIVE ToolSegmentsFrom(_, _)
ToolSegmentsFrom(toks, i) ==
    IF i > Len(toks) THEN <<>>
    ELSE LET e == ToolRegexAt(toks, i)
         IN  IF e # 0
             THEN <<SubSeq(toks, i, e)>> \o ToolSegmentsFrom(toks, e + 1)
             ELSE ToolSegmentsFrom(toks, i + 1)

extractToolSegments(toks) == ToolSegmentsFrom(toks, 1)

----------------------------------------------------------------------------
(* extractToolInfo *)

\* nameMatch: /this\.server\.tool\(\s*["']([^"']+)["']/, leftmost match
RECURSIVE NameMatchFrom(_, _)
NameMatchFrom(seg, i) ==
    IF i > Len(seg) THEN <<>>
    ELSE IF seg[i] = HEAD /\ QuotedAt(seg, i + 1) # 0
         THEN <<SubSeq(seg, i + 2, QuotedAt(seg, i + 1) - 1)>>
    ELSE NameMatchFrom(seg, i + 1)

\* descMatch: /this\.server\.tool\(\s*["'][^"']+["']\s*,\s*["']([^"']+)["']/
DescMatchAt(seg, i) ==
    IF At(seg, i) # HEAD THEN 0
    ELSE LET n == QuotedAt(seg, i + 1)
         IN  IF n # 0 /\ At(seg, n + 1) = COMMA THEN QuotedAt(seg, n + 2) ELSE 0

RECURSIVE DescMatchFrom(_, _)
DescMatchFrom(seg, i) ==
    IF i > Len(seg) THEN <<>>
    ELSE LET d == DescMatchAt(seg, i)
         IN  IF d # 0
             THEN <<SubSeq(seg, QuotedAt(seg, i + 1) + 3, d - 1)>>
             ELSE DescMatchFrom(seg, i + 1)

\* schemaMatch: /(?:["'][^"']*["']\s*,\s*)?({[\s\S]+?}),\s*async/, leftmost
\* match; the result is <<group 1>>, or <<>> when there is no match
SchemaMatchAt(seg, s) ==
    LET q == QuotedOrEmptyAt(seg, s)
        e1 == IF q # 0 /\ At(seg, q + 1) = COMMA THEN SchemaObjectAt(seg, q + 2) ELSE 0
        e2 == SchemaObjectAt(seg, s)
    IN  IF e1 # 0 THEN <<SubSeq(seg, q + 2, e1)>>
        ELSE IF e2 # 0 THEN <<SubSeq(seg, s, e2)>>
        ELSE <<>>

RECURSIVE SchemaMatchFrom(_, _)
SchemaMatchFrom(seg, s) ==
    IF s > Len(seg) THEN <<>>
    ELSE IF SchemaMatchAt(seg, s) # <<>> THEN SchemaMatchAt(seg, s)
    ELSE SchemaMatchFrom(seg, s + 1)

\* `Auto-generated docs for "${toolName}"`, with or without ` (regex-extracted)`
AutoDescription(toolName, suffix) ==
    <<Txt("Auto-generated docs for "), Q>> \o toolName \o <<Q>>
        \o (IF suffix THEN <<Txt(" (regex-extracted)")>> ELSE <<>>)

\* a returns descriptor that leaves the tool's name out
Returns_Unnamed(toolName) ==
    [type |-> Str("string"), description |-> <<Txt("Result from tool "), Q, Q>>]

\* { type: "string", description: `Result from tool "${toolName}"` }
Returns(toolName) ==
    [type |-> Str("string"),
     description |-> <<Txt("Result from tool "), Q>> \o toolName \o <<Q>>]

\* does the try block of extractToolInfo throw on this segment
SchemaParseThrows(seg) ==
    LET m == SchemaMatchFrom(seg, 1)
    IN  m # <<>> /\ ~parse(m[1]).ok

\* lines 173-198: params by the structural analyzer, by the text fallback when
\* the parse throws, [] when no schema text is found
ToolParams(seg) ==
    LET m == SchemaMatchFrom(seg, 1)
    IN  IF m = <<>> THEN <<>>
        ELSE IF parse(m[1]).ok THEN extractSchemaParams(parse(m[1]))
        ELSE extractParamsWithRegex(m[1])

extractToolInfo(seg) ==
    LET nameMatch == NameMatchFrom(seg, 1)
        toolName == IF nameMatch # <<>> THEN nameMatch[1] ELSE Str("unknown")
        descMatch == DescMatchFrom(seg, 1)
        toolDescription == IF descMatch # <<>> /\ descMatch[1] # <<>>
                           THEN descMatch[1]
                           ELSE AutoDescription(toolName, TRUE)
    IN  [name |-> toolName,
         description |-> toolDescription,
         params |-> ToolParams(seg),
         returns |-> Returns(toolName)]

\* console.log: "Found schema text for <toolName>:" / "Schema text: ..." with
\* the text taken as the schema, and "Added WorkerEntrypoint to docs.json"
SchemaTextLine(toolName, text) ==
    [line |-> "Schema text", tool |-> toolName, text |-> text]
AddedLine ==
    [line |-> "Added WorkerEntrypoint to docs.json", tool |-> <<>>, text |-> <<>>]

\* what extractToolInfo logs about the schema of a segment
SchemaLog(seg) ==
    LET m == SchemaMatchFrom(seg, 1)
    IN  IF m = <<>> THEN <<>>
        ELSE <<SchemaTextLine(extractToolInfo(seg).name, m[1])>>

\* JSON.stringify of a MethodDoc
StringifyTool(t) ==
    [name |-> t.name, description |-> t.description,
     params |-> StringifyParams(t.params), returns |-> t.returns]

\* the docs.json object of generateDocs
DocsJson(description, tools) ==
    [MCPMathServer |->
        [exported_as |-> "MCPMathServer",
         description |-> description,
         methods |-> [i \in 1..Len(tools) |-> StringifyTool(tools[i])],
         statics |-> <<>>]]

----------------------------------------------------------------------------
(* Input files: registration calls as written, and their text *)

\* A call site as written.  name and desc are string literals (lit) given by
\* their value, or for name an identifier; the schema object and the
\* description may be missing; the callback is an async arrow function or a
\* plain one.
Call(name, desc, sch, cb) == [name |-> name, desc |-> desc, schema |-> sch, cb |-> cb]

Literal(v) == [kind |-> "lit", v |-> v]
Identifier(s) == [kind |-> "ident", v |-> Str(s)]
Absent == [kind |-> "none", v |-> <<>>]
Object(props) == [kind |-> "object", props |-> props]
NoObject == [kind |-> "none", props |-> <<>>]

\* the text of a string literal: its value between quotes
LiteralToks(v) == <<Q>> \o v \o <<Q>>

ArgToks(a) ==
    CASE a.kind = "lit" -> LiteralToks(a.v)
      [] a.kind = "ident" -> a.v
      [] a.kind = "object" -> SchemaToks(a.props)
      [] OTHER -> <<>>

CallbackToks(cb) == IF cb = "async" THEN <<ASYNC, FN>> ELSE <<FN>>

\* this.server.tool(name, [description,] [schema,] callback)
CallToks(c) ==
    <<HEAD>> \o ArgToks(c.name)
        \o (IF c.desc.kind = "none" THEN <<>> ELSE <<COMMA>> \o ArgToks(c.desc))
        \o (IF c.schema.kind = "none" THEN <<>> ELSE <<COMMA>> \o ArgToks(c.schema))
        \o <<COMMA>> \o CallbackToks(c.cb) \o <<RP>>

RECURSIVE FileToks(_)
FileToks(cs) == IF cs = <<>> THEN <<>> ELSE CallToks(Head(cs)) \o FileToks(Tail(cs))

ToolNames == <<"add", "subtract", "multiply", "divide">>

\* the usual schema object, and one that acorn cannot parse (TypeScript `as`)
UsualProps ==
    <<Prop("a", FALSE, <<Z("number"), Describe("First")>>),
      Prop("b", FALSE, <<Z("number")>>)>>
CastProps == <<Prop("x", FALSE, <<Z("string"), OPT, TS>>)>>

UsualDescs == {Absent, Literal(Str("Adds two numbers"))}
\* "" and "it's"
OddDescs == {Literal(<<>>), Literal(<<Txt("it"), Q, Txt("s")>>)}
\* "" and an identifier
OddNames == {Literal(<<>>), Identifier("NAME")}
\* {}, no schema argument at all, and the object acorn cannot parse
OddSchemas == {Object(<<>>), NoObject, Object(CastProps)}

\* the calls that may stand at place i of a file: the usual call, with or
\* without description, the calls that differ from it in one argument, and the
\* calls with an odd name and the schema {}
CallsAt(i) ==
    LET nm == Literal(Str(ToolNames[i]))
    IN  {Call(nm, d, Object(UsualProps), "async") : d \in UsualDescs}
        \cup {Call(n, d, Object(UsualProps), "async") : n \in OddNames, d \in UsualDescs}
        \cup {Call(nm, d, Object(UsualProps), "async") : d \in OddDescs}
        \cup {Call(nm, d, s, "async") : d \in UsualDescs, s \in OddSchemas}
        \cup {Call(nm, d, Object(UsualProps), "plain") : d \in UsualDescs}
        \cup {Call(n, Absent, Object(<<>>), "async") : n \in OddNames}

RECURSIVE FilesOfLen(_)
FilesOfLen(n) ==
    IF n = 0 THEN {<<>>}
    ELSE {Append(f, c) : f \in FilesOfLen(n - 1), c \in CallsAt(n)}

Files == UNION {FilesOfLen(n) : n \in 0..MaxCalls}

----------------------------------------------------------------------------
(* The acorn-walk revision of generateDocs: whole-file parse, AST walk, and  *)
(* extractToolsWithRegex when the parse throws                              *)

StartsWithWord(t) == t.k \in {"z", "zarg", "zz", "plain", "txt"}

\* jsCode: the replace chain of the preprocessing.  Of its patterns only
\* /:\s*\w+(\[\])?/g finds anything in a file of registration calls: it
\* deletes the colon of a property and the word after it, so that
\* `a: z.number()` becomes `a.number()` and `a: 5` becomes `a`.
RECURSIVE Preprocess(_)
Preprocess(toks) ==
    IF toks = <<>> THEN <<>>
    ELSE IF IsKey(toks[1]) /\ Len(toks) >= 2 /\ StartsWithWord(toks[2])
         THEN LET key == IF toks[1].k = "skey"
                         THEN LiteralToks(Str(toks[1].v)) ELSE Str(toks[1].v)
                  rest == IF IsBase(toks[2]) THEN <<Tok("dot", toks[2].v)>> ELSE <<>>
              IN  key \o rest \o Preprocess(SubSeq(toks, 3, Len(toks)))
    ELSE <<toks[1]>> \o Preprocess(Tail(toks))

\* index of the first token at or after i that equals t, 0 when there is none
RECURSIVE IndexFrom(_, _, _)
IndexFrom(toks, t, i) ==
    IF i > Len(toks) THEN 0
    ELSE IF toks[i] = t THEN i
    ELSE IndexFrom(toks, t, i + 1)

\* does acorn throw on the preprocessed file: on `a.number()` or a quoted word
\* where a property is expected, and on TypeScript's `as`
RECURSIVE BadProperty(_, _, _)
BadProperty(js, i, depth) ==
    IF i > Len(js) THEN FALSE
    ELSE IF js[i] = LB THEN BadProperty(js, i + 1, depth + 1)
    ELSE IF js[i] = RB THEN BadProperty(js, i + 1, depth - 1)
    ELSE IF depth > 0 /\ js[i].k \in {"dot", "q"} THEN TRUE
    ELSE BadProperty(js, i + 1, depth)

FileParseThrows(js) == BadProperty(js, 1, 0) \/ TS \in Range(js)

\* the arguments of a call, split at the commas outside braces
RECURSIVE ArgsFrom(_, _, _, _, _)
ArgsFrom(toks, i, depth, cur, acc) ==
    IF i > Len(toks) THEN (IF cur = <<>> THEN acc ELSE Append(acc, cur))
    ELSE IF toks[i] = COMMA /\ depth = 0
         THEN ArgsFrom(toks, i + 1, depth, <<>>, Append(acc, cur))
    ELSE ArgsFrom(toks, i + 1,
                  depth + (IF toks[i] = LB THEN 1 ELSE IF toks[i] = RB THEN -1 ELSE 0),
                  Append(cur, toks[i]), acc)

\* node.arguments of every CallExpression on this.server.tool, in source order
RECURSIVE ToolCallsFrom(_, _)
ToolCallsFrom(js, i) ==
    LET h == IndexFrom(js, HEAD, i)
        r == IF h = 0 THEN 0 ELSE IndexFrom(js, RP, h + 1)
    IN  IF h = 0 \/ r = 0 THEN <<>>
        ELSE <<ArgsFrom(SubSeq(js, h + 1, r - 1), 1, 0, <<>>, <<>>)>>
                 \o ToolCallsFrom(js, r + 1)

\* toolNameNode.type === "Literal" && typeof toolNameNode.value === "string"
IsStringLiteral(arg) == Len(arg) >= 2 /\ arg[1] = Q /\ arg[Len(arg)] = Q
LiteralValue(arg) == SubSeq(arg, 2, Len(arg) - 1)

\* the MethodDoc pushed for one call with at least three arguments.  The schema
\* text is cut from the original code at the offsets of the second argument in
\* jsCode; the preprocessing leaves a file that parses unchanged, so the two agree.
WalkTool(args) ==
    LET toolName == IF IsStringLiteral(args[1]) THEN LiteralValue(args[1])
                    ELSE Str("unknownTool")
    IN  [name |-> toolName,
         description |-> AutoDescription(toolName, FALSE),
         params |-> parseZodSchema(args[2]),
         returns |-> Returns(toolName)]

\* console.log(`Schema text: ${zodSchemaText}`) of the walk, call by call
RECURSIVE WalkLog(_)
WalkLog(callSites) ==
    IF callSites = <<>> THEN <<>>
    ELSE IF Len(Head(callSites)) < 3 THEN WalkLog(Tail(callSites))
    ELSE <<SchemaTextLine(WalkTool(Head(callSites)).name, Head(callSites)[2])>>
             \o WalkLog(Tail(callSites))

\* a walk that takes every call, whatever the number of its arguments
RECURSIVE WalkTools_AnyArity(_)
WalkTools_AnyArity(callSites) ==
    IF callSites = <<>> THEN <<>>
    ELSE <<WalkTool(Head(callSites) \o <<<<>>, <<>>>>)>> \o WalkTools_AnyArity(Tail(callSites))

RECURSIVE WalkTools(_)
WalkTools(callSites) ==
    IF callSites = <<>> THEN <<>>
    ELSE IF Len(Head(callSites)) < 3 THEN WalkTools(Tail(callSites))
    ELSE <<WalkTool(Head(callSites))>> \o WalkTools(Tail(callSites))

\* extractToolsWithRegex: /this\.server\.tool\(\s*["']([^"']+)["'],\s*({[^}]+}),/g
\* the index of the last token of the match that starts at i, 0 when no match
ToolsRegexAt(toks, i) ==
    IF At(toks, i) # HEAD THEN 0
    ELSE LET n == QuotedAt(toks, i + 1)
             r == IF n # 0 /\ At(toks, n + 1) = COMMA /\ At(toks, n + 2) = LB
                  THEN IndexFrom(toks, RB, n + 3) ELSE 0
         IN  IF r > n + 3 /\ At(toks, r + 1) = COMMA THEN r + 1 ELSE 0

RegexTool(toks, i) ==
    LET n == QuotedAt(toks, i + 1)
        toolName == SubSeq(toks, i + 2, n - 1)
        schemaText == SubSeq(toks, n + 2, ToolsRegexAt(toks, i) - 1)
    IN  [name |-> toolName,
         description |-> AutoDescription(toolName, TRUE),
         params |-> parseZodSchema(schemaText),
         returns |-> Returns(toolName)]

RECURSIVE ToolsWithRegexFrom(_, _)
ToolsWithRegexFrom(toks, i) ==
    IF i > Len(toks) THEN <<>>
    ELSE IF ToolsRegexAt(toks, i) # 0
         THEN <<RegexTool(toks, i)>> \o ToolsWithRegexFrom(toks, ToolsRegexAt(toks, i) + 1)
    ELSE ToolsWithRegexFrom(toks, i + 1)

extractToolsWithRegex(toks) == ToolsWithRegexFrom(toks, 1)

\* console.log(`Schema text from regex: ${schemaText}`), match by match
RECURSIVE RegexLog(_, _)
RegexLog(toks, i) ==
    IF i > Len(toks) THEN <<>>
    ELSE IF ToolsRegexAt(toks, i) # 0
         THEN <<SchemaTextLine(RegexTool(toks, i).name,
                               SubSeq(toks, QuotedAt(toks, i + 1) + 2,
                                      ToolsRegexAt(toks, i) - 1))>>
                  \o RegexLog(toks, ToolsRegexAt(toks, i) + 1)
    ELSE RegexLog(toks, i + 1)

----------------------------------------------------------------------------
(* The generator script: generateDocs(process.argv[2]).then(addWorkerEntrypoint) *)

Revisions == {"segments", "walk", "walkOnly"}

ParamsIdle ==
    /\ schema = <<>>
    /\ astParams = <<>>
    /\ rxParams = <<>>
    /\ ran = {}
    /\ rxLog = <<>>
    /\ zodLog = <<>>

\* The input file holds a sequence of registration calls, or cannot be read;
\* dist/docs.json does not exist yet.
Init ==
    /\ revision \in Revisions
    /\ calls \in Files
    /\ code \in {<<FileToks(calls)>>} \cup (IF calls = <<>> THEN {<<>>} ELSE {})
    /\ docs = <<>>
    /\ pc = "idle"
    /\ exitCode = 0
    /\ stderr = <<>>
    /\ tempJs = <<>>
    /\ discover = "none"
    /\ stdout = <<>>
    /\ runs = 1
    /\ prev = <<>>
    /\ ParamsIdle
    /\ DiscoverIdle
    /\ CliIdle
    /\ ConfigIdle
    /\ PrintIdle

\* the tools of the file: extractToolInfo of every segment
RECURSIVE ToolsOfSegments(_)
ToolsOfSegments(segments) ==
    IF segments = <<>> THEN <<>>
    ELSE <<extractToolInfo(Head(segments))>> \o ToolsOfSegments(Tail(segments))

\* the console.error reports of extractToolInfo over the segments
RECURSIVE SchemaErrors(_)
SchemaErrors(segments) ==
    IF segments = <<>> THEN <<>>
    ELSE (IF SchemaParseThrows(Head(segments))
          THEN <<"Error parsing schema for tool">> ELSE <<>>)
             \o SchemaErrors(Tail(segments))

\* the schema texts extractToolInfo logs over the segments
RECURSIVE SchemaLogs(_)
SchemaLogs(segments) ==
    IF segments = <<>> THEN <<>>
    ELSE SchemaLog(Head(segments)) \o SchemaLogs(Tail(segments))

\* a module entry whose catch swallows the error and lets the chain go on
EntryCatch_Swallows == [pc |-> "generated", exitCode |-> 0]

\* .catch((err) => { console.error("Error generating docs:", err); process.exit(1) })
EntryCatch == [pc |-> "failed", exitCode |-> 1]

\* a generateDocs that adds the tools it found to the ones of the file on disk
DocsAfterSegments_Merge(old, tools) ==
    IF Len(tools) > 0
    THEN <<DocsJson("Detected tools from this.server.tool(...) calls",
                    (IF old = <<>> THEN <<>> ELSE old[1].MCPMathServer.methods) \o tools)>>
    ELSE old

\* what generateDocs leaves in dist/docs.json: written when a tool was found
DocsAfterSegments(old, tools) ==
    IF Len(tools) > 0
    THEN <<DocsJson("Detected tools from this.server.tool(...) calls", tools)>>
    ELSE old

\* generateDocs of template/scripts/docgen-acorn.ts, with the catch of the
\* module entry when readFileSync throws
GenerateDocs ==
    /\ pc = "idle"
    /\ revision = "segments"
    /\ IF code = <<>>
       THEN /\ pc' = EntryCatch.pc
            /\ exitCode' = EntryCatch.exitCode
            /\ stderr' = Append(stderr, "Error generating docs")
            /\ UNCHANGED <<docs, stdout>>
       ELSE LET toolSegments == extractToolSegments(code[1])
                tools == ToolsOfSegments(toolSegments)
            IN  /\ docs' = DocsAfterSegments(docs, tools)
                /\ stdout' = stdout \o SchemaLogs(toolSegments)
                /\ stderr' = stderr \o SchemaErrors(toolSegments)
                                 \o (IF Len(tools) > 0 THEN <<>>
                                     ELSE <<"No tools found in the source code.">>)
                /\ pc' = "generated"
                /\ UNCHANGED exitCode
    /\ UNCHANGED <<code, calls, revision, tempJs, discover, runs, prev>>
    /\ UNCHANGED <<paramVars, discVars, cliVars, configVars, printVars>>

\* what the acorn-walk revisions write when the whole-file parse succeeds
DocsAfterWalk(js) ==
    <<DocsJson("Detected tools from this.server.tool(...) calls",
               WalkTools(ToolCallsFrom(js, 1)))>>

\* a catch block that gives up the tools of the file
DocsAfterParseError_NoTools(text) ==
    <<DocsJson("Detected tools from this.server.tool(...) calls using regex fallback",
               <<>>)>>

\* what the acorn-walk revisions write when the whole-file parse throws
DocsAfterParseError(text) ==
    <<DocsJson("Detected tools from this.server.tool(...) calls using regex fallback",
               extractToolsWithRegex(text))>>

\* generateDocs of the acorn-walk revisions, with the catch of the module entry
GenerateDocsWalk ==
    /\ pc = "idle"
    /\ revision \in {"walk", "walkOnly"}
    /\ IF code = <<>>
       THEN /\ pc' = EntryCatch.pc
            /\ exitCode' = EntryCatch.exitCode
            /\ stderr' = Append(stderr, "Error generating docs")
            /\ UNCHANGED <<docs, tempJs, stdout>>
       ELSE LET jsCode == Preprocess(code[1])
            IN  /\ tempJs' = IF revision = "walk" THEN <<jsCode>> ELSE tempJs
                /\ IF FileParseThrows(jsCode)
                   THEN /\ docs' = DocsAfterParseError(code[1])
                        /\ stderr' = Append(stderr, "Error parsing JavaScript")
                        /\ stdout' = stdout \o RegexLog(code[1], 1)
                   ELSE /\ docs' = DocsAfterWalk(jsCode)
                        /\ stdout' = stdout \o WalkLog(ToolCallsFrom(jsCode, 1))
                        /\ UNCHANGED stderr
                /\ pc' = IF revision = "walk" THEN "generated" ELSE "done"
                /\ UNCHANGED exitCode
    /\ UNCHANGED <<code, calls, revision, discover, runs, prev>>
    /\ UNCHANGED <<paramVars, discVars, cliVars, configVars, printVars>>

\* a WorkerEntrypoint entry that does not take over the methods
WorkerEntrypointDoc_NoMethods(d) ==
    [exported_as |-> "default",
     description |-> "Worker Entrypoint class extending MCPMathServer",
     methods |-> <<>>,
     statics |-> <<>>]

\* the WorkerEntrypoint entry addWorkerEntrypoint adds
WorkerEntrypointDoc(d) ==
    [exported_as |-> "default",
     description |-> "Worker Entrypoint class extending MCPMathServer",
     methods |-> d.MCPMathServer.methods,
     statics |-> <<>>]

\* an addWorkerEntrypoint that does not look for the entry it adds
AddsWorkerEntrypoint_Always(old) ==
    old # <<>> /\ "MCPMathServer" \in DOMAIN old[1]

\* fs.existsSync(docsPath) && docsJson.MCPMathServer && !docsJson.WorkerEntrypoint
AddsWorkerEntrypoint(old) ==
    /\ old # <<>>
    /\ "MCPMathServer" \in DOMAIN old[1]
    /\ "WorkerEntrypoint" \notin DOMAIN old[1]

\* docs.json after addWorkerEntrypoint
WithWorkerEntrypoint(old) ==
    IF AddsWorkerEntrypoint(old)
    THEN <<[MCPMathServer |-> old[1].MCPMathServer,
            WorkerEntrypoint |-> WorkerEntrypointDoc(old[1])]>>
    ELSE old

\* .then(() => addWorkerEntrypoint())
AddWorkerEntrypoint ==
    /\ pc = "generated"
    /\ docs' = WithWorkerEntrypoint(docs)
    /\ stdout' = IF AddsWorkerEntrypoint(docs) THEN Append(stdout, AddedLine) ELSE stdout
    /\ pc' = "done"
    /\ UNCHANGED <<code, calls, revision, exitCode, stderr, tempJs, discover, runs, prev>>
    /\ UNCHANGED <<paramVars, discVars, cliVars, configVars, printVars>>

----------------------------------------------------------------------------
(* discoverTools: docs.json from the worker's /mcp/discover endpoint *)

\* a tool of the response: name, description?, inputSchema?.properties (in key
\* order) and inputSchema?.required
DiscoveredTool(name, description, hasSchema, properties, required) ==
    [name |-> name, description |-> description, hasSchema |-> hasSchema,
     properties |-> properties, required |-> required]

PropertySchema(name, type, description) ==
    [name |-> name, type |-> type, description |-> description]

DiscoverableTools ==
    {DiscoveredTool(Str("add"), Str("Adds two numbers"), TRUE,
                    <<PropertySchema(Str("a"), Str("number"), Str("First")),
                      PropertySchema(Str("b"), Undefined, Undefined)>>,
                    {Str("a")}),
     DiscoveredTool(Str("ping"), Undefined, FALSE, <<>>, {})}

\* what fetch and response.json() give: a failed fetch, a non-OK status, a body
\* without a tools array, or a body with one
Responses ==
    {[kind |-> k, tools |-> <<>>] : k \in {"fetchError", "httpError", "invalid"}}
        \cup {[kind |-> "ok", tools |-> ts] : ts \in SeqsUpTo(DiscoverableTools, MaxDiscovered)}

DiscoveredParam(tool, p) ==
    [name |-> p.name,
     type |-> IF p.type = Undefined THEN Str("any") ELSE p.type,
     description |-> p.description,
     optional |-> p.name \notin tool.required]

\* the MethodDoc built for one tool of the response
DiscoveredMethod(tool) ==
    [name |-> tool.name,
     description |-> IF tool.description = Undefined \/ tool.description = <<>>
                     THEN AutoDescription(tool.name, TRUE) ELSE tool.description,
     params |-> IF tool.hasSchema
                THEN [i \in 1..Len(tool.properties) |->
                          DiscoveredParam(tool, tool.properties[i])]
                ELSE <<>>,
     returns |-> Returns(tool.name)]

DiscoveredDocs(tools) ==
    <<DocsJson("Discovered tools from /mcp/discover endpoint",
               [i \in 1..Len(tools) |-> DiscoveredMethod(tools[i])])>>

\* the catch of discoverTools: console.error and process.exit(1)
DiscoverCatch == [exitCode |-> 1]

\* a discoverTools that writes the document before it has looked at the response
DocsAfterDiscoverError_WritesFirst(old) == DiscoveredDocs(<<>>)

\* dist/docs.json after a fetch failure, a non-OK status or a body without a
\* tools array: the throw comes before mkdirSync and writeFileSync
DocsAfterDiscoverError(old) == old

\* the discover script, run on a project once its generator has finished
DiscoverTools ==
    /\ pc = "done"
    /\ discover = "none"
    /\ \E urlGiven \in BOOLEAN, response \in Responses :
           IF ~urlGiven
           THEN /\ discoverErr' = Append(discoverErr, "Usage: pnpm tsx scripts/discover.ts <worker-url>")
                /\ discoverExit' = 1
                /\ fetched' = "notFetched"
                /\ discover' = "failed"
                /\ UNCHANGED docs
           ELSE IF response.kind # "ok"
           THEN /\ discoverErr' = Append(discoverErr, "Error discovering tools:")
                /\ discoverExit' = DiscoverCatch.exitCode
                /\ fetched' = response.kind
                /\ discover' = "failed"
                /\ docs' = DocsAfterDiscoverError(docs)
           ELSE /\ docs' = DiscoveredDocs(response.tools)
                /\ discover' = "ok"
                /\ fetched' = response.kind
                /\ UNCHANGED <<discoverExit, discoverErr>>
    /\ UNCHANGED <<code, calls, pc, revision, exitCode, stderr, tempJs, stdout, runs, prev>>
    /\ UNCHANGED <<paramVars, cliVars, configVars, printVars>>

Next == GenerateDocs \/ GenerateDocsWalk \/ AddWorkerEntrypoint \/ DiscoverTools

Spec == Init /\ [][Next]_vars

----------------------------------------------------------------------------
(* The generator started again and again in one project, on inputs that may  *)
(* change between the runs                                                  *)

\* the input files of the runs: no registration call, or one call
RunCalls ==
    {Call(Literal(Str("add")), Absent, Object(UsualProps), "async"),
     Call(Literal(Str("subtract")), Literal(Str("Adds two numbers")),
          Object(UsualProps), "async"),
     Call(Literal(Str("add")), Absent, Object(<<>>), "async"),
     Call(Literal(Str("add")), Absent, NoObject, "async")}

RunFiles == {<<>>} \cup {<<c>> : c \in RunCalls}

InitRuns ==
    /\ revision \in Revisions
    /\ calls \in RunFiles
    /\ code \in {<<FileToks(calls)>>} \cup (IF calls = <<>> THEN {<<>>} ELSE {})
    /\ docs = <<>>
    /\ pc = "idle"
    /\ exitCode = 0
    /\ stderr = <<>>
    /\ tempJs = <<>>
    /\ discover = "none"
    /\ stdout = <<>>
    /\ runs = 1
    /\ prev = <<>>
    /\ ParamsIdle
    /\ DiscoverIdle
    /\ CliIdle
    /\ ConfigIdle
    /\ PrintIdle

\* the project as a new run finds it: what the last run was given, how it
\* ended, and dist/docs.json
Snapshot ==
    [code |-> code, pc |-> pc, discover |-> discover, docs |-> docs]

\* the script is started again: a new process, on the file as it is now
StartRun ==
    /\ pc \in {"done", "failed"}
    /\ runs < MaxRuns
    /\ calls' \in RunFiles
    /\ code' \in {<<FileToks(calls')>>} \cup (IF calls' = <<>> THEN {<<>>} ELSE {})
    /\ pc' = "idle"
    /\ exitCode' = 0
    /\ stderr' = <<>>
    /\ stdout' = <<>>
    /\ discover' = "none"
    /\ discoverExit' = 0
    /\ discoverErr' = <<>>
    /\ fetched' = "none"
    /\ runs' = runs + 1
    /\ prev' = <<Snapshot>>
    /\ UNCHANGED <<docs, revision, tempJs>>
    /\ UNCHANGED <<paramVars, cliVars, configVars, printVars>>

NextRuns ==
    GenerateDocs \/ GenerateDocsWalk \/ AddWorkerEntrypoint \/ DiscoverTools \/ StartRun

SpecRuns == InitRuns /\ [][NextRuns]_vars

----------------------------------------------------------------------------
(* Properties of the written document *)

\* the document of the generator is in dist/docs.json: the generator has run
\* on a readable file and the discover script has not replaced its output
GeneratorRan ==
    /\ pc \in {"generated", "done"}
    /\ code # <<>>
    /\ discover # "ok"

\* the tool records under MCPMathServer.methods, none when no document exists
Methods == IF docs = <<>> THEN <<>> ELSE docs[1].MCPMathServer.methods

\* the tool records of every entry of the document
AllMethods ==
    IF docs = <<>> THEN {}
    ELSE UNION {Range(docs[1][e].methods) : e \in DOMAIN docs[1]}

\* a string literal that is not empty and holds no quote
PlainLiteral(a) == a.kind = "lit" /\ a.v # <<>> /\ Q \notin Range(a.v)

\* this.server.tool(name, [description,] schemaObject, callback) with a name
\* literal, an optional description literal, an object literal and a callback
WellFormed(c) ==
    /\ PlainLiteral(c.name)
    /\ c.desc.kind = "none" \/ PlainLiteral(c.desc)
    /\ c.schema.kind = "object"

\* C1: for a readable source whose registration calls are all well-formed,
\* the number of tool records under MCPMathServer.methods equals the number of
\* call sites, whichever extraction path produced them.
C1_OneRecordPerCallSite ==
    (GeneratorRan /\ \A i \in 1..Len(calls) : WellFormed(calls[i]))
        => Len(Methods) = Len(calls)

\* C2: the record of a call with a description literal carries that literal
\* exactly, and the record of a call without one carries the auto-generated
\* default 'Auto-generated docs for "<name>"'.
C2_DescriptionOfCall ==
    (GeneratorRan /\ revision = "segments")
        => \A i \in 1..Len(calls), j \in 1..Len(Methods) :
               (calls[i].name.kind = "lit" /\ Methods[j].name = calls[i].name.v)
                   => IF calls[i].desc.kind = "lit"
                      THEN Methods[j].description = calls[i].desc.v
                      ELSE Methods[j].description
                               \in {<<Txt("Auto-generated docs for "), Q>>
                                        \o calls[i].name.v \o <<Q>> \o sfx :
                                    sfx \in {<<>>, <<Txt(" (regex-extracted)")>>}}

\* C6: every tool record of every written document has a name that is a
\* non-empty string.
C6_NameNonEmpty ==
    \A m \in AllMethods :
        /\ "name" \in DOMAIN m
        /\ m.name # <<>>
        /\ m.name # Undefined

\* C7: every tool record of every written document has returns
\* {type: "string", description: 'Result from tool "<name>"'} with the
\* record's own name, whatever the callback.
C7_ReturnsIsFixed ==
    \A m \in AllMethods :
        /\ "returns" \in DOMAIN m
        /\ m.returns = [type |-> <<Txt("string")>>,
                        description |-> <<Txt("Result from tool "), Q>>
                                            \o m.name \o <<Q>>]

\* documents of the generator and of the discover script with records, from a
\* file with an async callback and from one with a plain callback
C7_Witness ==
    /\ pc = "done"
    /\ Len(Methods) >= 1
    /\ "WorkerEntrypoint" \in DOMAIN docs[1]
    /\ \E i \in 1..Len(calls) : calls[i].cb = "plain"
    /\ \E i \in 1..Len(calls) : calls[i].cb = "async"

\* the records the generator writes for a file of the given calls
RecordsOf(cs) ==
    LET tools == ToolsOfSegments(extractToolSegments(FileToks(cs)))
    IN  [i \in 1..Len(tools) |-> StringifyTool(tools[i])]

\* the sequence s without its i-th element
Without(s, i) == SubSeq(s, 1, i - 1) \o SubSeq(s, i + 1, Len(s))

\* C9: a tool whose schema text acorn cannot parse is still emitted, with the
\* params of the regex fallback, the run does not abort, and the other tools
\* of the file get the records they get when the failing tool is absent.
C9_SchemaFailureIsLocal ==
    (GeneratorRan /\ revision = "segments")
        => \A i \in 1..Len(calls) :
               (calls[i].schema = Object(CastProps) /\ ~parse(SchemaToks(CastProps)).ok)
                   => /\ exitCode = 0
                      /\ \E j \in 1..Len(Methods) :
                             /\ Methods[j].name = calls[i].name.v
                             /\ Methods[j].params
                                    = StringifyParams(
                                          extractParamsWithRegex(SchemaToks(CastProps)))
                             /\ Without(Methods, j) = RecordsOf(Without(calls, i))

\* the call is one the text pattern of the acorn-walk revisions finds: a name
\* literal directly followed by a non-empty object literal
FoundByPattern(c) ==
    /\ PlainLiteral(c.name)
    /\ c.desc.kind = "none"
    /\ c.schema.kind = "object" /\ c.schema.props # <<>>

\* C10: when the parse of the whole preprocessed file throws, the run does
\* not fail: the document is written and holds, in source order, one record for
\* each call the text pattern finds in the raw source.
C10_WholeFileFallback ==
    (GeneratorRan /\ revision \in {"walk", "walkOnly"}
         /\ FileParseThrows(Preprocess(code[1])))
        => /\ exitCode = 0
           /\ docs # <<>>
           /\ LET found == SelectSeq(calls, FoundByPattern)
              IN  [j \in 1..Len(Methods) |-> Methods[j].name]
                      = [i \in 1..Len(found) |-> found[i].name.v]

\* the parse threw on a file with a described call and an undescribed one, and
\* the document holds the undescribed one
C10_Witness ==
    /\ GeneratorRan /\ revision \in {"walk", "walkOnly"}
    /\ FileParseThrows(Preprocess(code[1]))
    /\ stderr = <<"Error parsing JavaScript">>
    /\ Len(calls) = 2 /\ Len(Methods) = 1

----------------------------------------------------------------------------
(* Properties of runs that follow one another (checked under SpecRuns) *)

\* C11: when the input file cannot be read, the run reports the error and
\* ends with exit code 1, dist/docs.json is left as the run found it, and the
\* ended process does nothing more: addWorkerEntrypoint is not executed.
C11_UnreadableInputIsFatal ==
    [][/\ (pc = "idle" /\ code = <<>> /\ pc' # pc)
           => /\ pc' = "failed"
              /\ exitCode' = 1
              /\ stderr' = Append(stderr, "Error generating docs")
              /\ docs' = docs
       /\ pc = "failed"
           => /\ docs' = docs
              /\ stdout' \in {stdout, <<>>}
              /\ pc' \in {"failed", "idle"}]_vars

\* a run on an unreadable file in a project whose docs.json an earlier run wrote
C11_Witness ==
    /\ pc = "failed"
    /\ code = <<>>
    /\ exitCode = 1
    /\ prev # <<>>
    /\ docs # <<>>
    /\ docs = prev[1].docs

----------------------------------------------------------------------------
(* Properties of one run of the generator (checked under Spec) *)

\* the tool records a run of the given revision finds in a file of the given calls
RecordsOfRun(rev, cs) ==
    LET text == FileToks(cs)
        js == Preprocess(text)
        tools == IF rev = "segments" THEN ToolsOfSegments(extractToolSegments(text))
                 ELSE IF FileParseThrows(js) THEN extractToolsWithRegex(text)
                 ELSE WalkTools(ToolCallsFrom(js, 1))
    IN  [i \in 1..Len(tools) |-> StringifyTool(tools[i])]

\* this.server.tool(name, callback): no description and no schema object
TwoArguments(c) == c.desc.kind = "none" /\ c.schema.kind = "none"

C13_ObjectTaken(c) ==
    \A k \in 1..Len(stdout) :
        (stdout[k].line = "Schema text" /\ stdout[k].tool = c.name.v)
            => stdout[k].text = SchemaToks(c.schema.props)

\* the record of call i has the params it has when the description is left out
C13_SameParams(i) ==
    LET name == calls[i].name.v
        other == RecordsOfRun(revision, [calls EXCEPT ![i].desc = Absent])
    IN  \A j \in 1..Len(Methods), k \in 1..Len(other) :
            (Methods[j].name = name /\ other[k].name = name)
                => Methods[j].params = other[k].params

\* C13: the schema of a call is its object literal, the second argument when
\* there is no description literal and the third when there is one, so that the
\* params of a tool are the same with and without a description literal.
C13_SchemaByArgumentType ==
    GeneratorRan
        => \A i \in 1..Len(calls) :
               (PlainLiteral(calls[i].name) /\ calls[i].schema.kind = "object")
                   => /\ C13_ObjectTaken(calls[i])
                      /\ PlainLiteral(calls[i].desc) => C13_SameParams(i)


\* this run and the run before it both came to their end, on the same
\* readable file, and the discover script did not write in between
SameInputTwice ==
    /\ pc = "done"
    /\ discover = "none"
    /\ code # <<>>
    /\ prev # <<>>
    /\ prev[1].pc = "done"
    /\ prev[1].discover # "ok"
    /\ prev[1].code = code

\* C16: after the generator (generateDocs, then addWorkerEntrypoint) has run
\* twice on the same unchanged input, dist/docs.json is what it was after the
\* first of the two runs.
C16_RunTwiceSameOutput ==
    SameInputTwice => docs = prev[1].docs

\* the second run on a file with a tool, in the current generator
C16_Witness ==
    /\ SameInputTwice
    /\ revision = "segments"
    /\ Len(Methods) = 1
    /\ "WorkerEntrypoint" \in DOMAIN docs[1]
    /\ docs = prev[1].docs


\* C17: addWorkerEntrypoint, invoked on a docs.json that holds MCPMathServer,
\* leaves exactly the keys MCPMathServer and WorkerEntrypoint, and when the
\* WorkerEntrypoint entry is already there it neither changes nor rewrites the file.
C17_AddWorkerEntrypointIdempotent ==
    [][(pc = "generated" /\ pc' = "done" /\ docs # <<>>)
           => /\ DOMAIN docs'[1] = {"MCPMathServer", "WorkerEntrypoint"}
              /\ "WorkerEntrypoint" \in DOMAIN docs[1]
                     => (docs' = docs /\ stdout' = stdout)]_vars

\* addWorkerEntrypoint has been invoked again on the document of an earlier
\* run: this run found no tool and wrote nothing
C17_Witness ==
    /\ pc = "done"
    /\ revision = "segments"
    /\ prev # <<>>
    /\ prev[1].docs # <<>>
    /\ "WorkerEntrypoint" \in DOMAIN prev[1].docs[1]
    /\ code # <<>>
    /\ extractToolSegments(code[1]) = <<>>
    /\ discover = "none"
    /\ docs = prev[1].docs
    /\ stdout = <<>>


\* this run came to its end on a readable file and its output is on disk
RunCompleted ==
    /\ pc = "done"
    /\ discover # "ok"
    /\ code # <<>>

\* C18: after any sequence of runs, dist/docs.json holds what the input of the
\* last completed run gives and nothing else: every tool record is a record of
\* a call of that input, none is left from an earlier run.
C18_NoStaleRecords ==
    RunCompleted
        => /\ Methods = RecordsOfRun(revision, calls)
           /\ \A m \in AllMethods :
                  \E i \in 1..Len(calls) :
                      calls[i].name.kind = "lit" /\ calls[i].name.v = m.name


\* C20: whatever generateDocs, addWorkerEntrypoint and discoverTools have done,
\* the entry MCPMathServer of dist/docs.json has exported_as "MCPMathServer"
\* and empty statics, and a WorkerEntrypoint entry has exported_as "default",
\* empty statics and the methods of MCPMathServer.
C20_EntriesWellFormed ==
    docs # <<>>
        => /\ "MCPMathServer" \in DOMAIN docs[1]
           /\ docs[1].MCPMathServer.exported_as = "MCPMathServer"
           /\ docs[1].MCPMathServer.statics = <<>>
           /\ "WorkerEntrypoint" \in DOMAIN docs[1]
                  => /\ docs[1].WorkerEntrypoint.exported_as = "default"
                     /\ docs[1].WorkerEntrypoint.statics = <<>>
                     /\ docs[1].WorkerEntrypoint.methods = docs[1].MCPMathServer.methods

\* addWorkerEntrypoint has added its entry to a document of the discover script
C20_Witness ==
    /\ docs # <<>>
    /\ docs[1].MCPMathServer.description = "Discovered tools from /mcp/discover endpoint"
    /\ "WorkerEntrypoint" \in DOMAIN docs[1]
    /\ Len(docs[1].WorkerEntrypoint.methods) = 1

----------------------------------------------------------------------------
(* The run that finds no tool (checked under Spec) *)

\* no extraction strategy finds a call site in the file
NoCallSiteFound ==
    /\ code # <<>>
    /\ extractToolSegments(code[1]) = <<>>
    /\ extractToolsWithRegex(code[1]) = <<>>
    /\ WalkTools(ToolCallsFrom(Preprocess(code[1]), 1)) = <<>>

\* C19: a run on a readable file in which no strategy finds a call site
\* reports an error on the console, does not fail, and leaves a document whose
\* methods list is empty, in every revision alike.
C19_NoToolsFound ==
    (GeneratorRan /\ NoCallSiteFound)
        => /\ stderr # <<>>
           /\ exitCode = 0
           /\ docs # <<>>
           /\ Methods = <<>>

----------------------------------------------------------------------------
(* The files a run of the generator touches (checked under Spec) *)

\* C22: a step of the generator script leaves every file of the working
\* directory other than dist/docs.json as it was: the input source file and
\* temp-preprocessed.js are neither created nor modified.
C22_OnlyDocsJsonWritten ==
    [][(pc \in {"idle", "generated"} /\ pc' # pc)
           => (code' = code /\ tempJs' = tempJs)]_vars

----------------------------------------------------------------------------
(* The segments of extractToolSegments (checked under Spec) *)

\* how many registration call heads `this.server.tool(` a text holds
RECURSIVE HeadCount(_)
HeadCount(toks) ==
    IF toks = <<>> THEN 0
    ELSE (IF Head(toks) = HEAD THEN 1 ELSE 0) + HeadCount(Tail(toks))

\* C28: every segment generateDocs got from extractToolSegments holds exactly
\* one registration call head: no segment runs on into a following call.
C28_OneCallPerSegment ==
    (GeneratorRan /\ revision = "segments")
        => \A n \in 1..Len(extractToolSegments(code[1])) :
               HeadCount(extractToolSegments(code[1])[n]) = 1

----------------------------------------------------------------------------
(* The discover script (checked under Spec) *)

\* the responses discoverTools rejects
FailedResponses == {"fetchError", "httpError", "invalid"}

\* C29: when discoverTools gets a fetch failure, a non-OK response or a body
\* without a tools array, it reports the error, exits with code 1 and leaves
\* dist/docs.json as it was; the script changes docs.json only when the
\* response was accepted.
C29_DiscoverFailureKeepsDocs ==
    [][(discover = "none" /\ discover' # "none")
           => /\ fetched' \in FailedResponses
                  => /\ docs' = docs
                     /\ discoverExit' = 1
                     /\ Len(discoverErr') = Len(discoverErr) + 1
              /\ docs' # docs => fetched' = "ok"]_vars

\* a non-OK response reached a project that has a docs.json
C29_Witness ==
    /\ fetched = "httpError"
    /\ discover = "failed"
    /\ docs # <<>>
    /\ Methods # <<>>
    /\ discoverExit = 1

----------------------------------------------------------------------------
(* cli.ts, updateConfigurations: package.json, wrangler.jsonc and README.md  *)
(* of the project directory.  A script of package.json is a sequence of      *)
(* words; wrangler.jsonc and README.md are sequences of pieces of text: a    *)
(* "name" field, a first-level heading, a `bun create mcp --clone` command,  *)
(* the rewritten `npx create-cursor-mcp --clone` command, the section        *)
(* "## Documentation Generation", and other text.                            *)

Piece(k, v) == [k |-> k, v |-> v]

\* index of the first piece of kind k, 0 when there is none
FirstPiece(text, k) ==
    IF \E i \in 1..Len(text) : text[i].k = k
    THEN CHOOSE i \in 1..Len(text) :
             text[i].k = k /\ \A j \in 1..(i - 1) : text[j].k # k
    ELSE 0

\* String.prototype.replace with a pattern that is not global: the first
\* match is replaced, the rest of the text stays
ReplaceFirst(text, k, new) ==
    LET i == FirstPiece(text, k)
    IN  IF i = 0 THEN text ELSE [text EXCEPT ![i] = new]

\* script.includes(word); no word of the scripts of the model holds another
\* word inside it
Includes(script, word) == word \in Range(script)

\* script.replace("run-s", "run-s docgen-acorn")
AfterRunS(script) ==
    LET i == CHOOSE j \in 1..Len(script) :
                 script[j] = "run-s" /\ \A h \in 1..(j - 1) : script[h] # "run-s"
    IN  SubSeq(script, 1, i) \o <<"docgen-acorn">> \o SubSeq(script, i + 1, Len(script))

\* lines 201-240: the name, the docgen-acorn script, the deploy script and
\* devDependencies of package.json (an absent property is <<>>, a present one
\* <<value>>)
UpdatedPackageJson(p, projectName) ==
    LET named == [p EXCEPT !.name = projectName]
        deploy == IF p.deploy = <<>> THEN <<>> ELSE p.deploy[1]
        hasRunAll == p.devDependencies # <<>> /\ "npm-run-all" \in p.devDependencies[1]
        withDocgen == [named EXCEPT !.docgenAcorn =
                           <<<<"workers-mcp", "docgen-acorn", "src/api/index.ts">>>>]
    IN  IF p.docgenAcorn # <<>> THEN named
        ELSE IF p.deploy = <<>> \/ Includes(deploy, "docgen-acorn") THEN withDocgen
        ELSE IF hasRunAll /\ Includes(deploy, "run-s")
             THEN [withDocgen EXCEPT !.deploy = <<AfterRunS(deploy)>>]
        ELSE IF hasRunAll
             THEN [withDocgen EXCEPT !.deploy = <<<<"run-s", "docgen-acorn">> \o deploy>>]
        ELSE [withDocgen EXCEPT
                  !.deploy = <<<<"npm", "run", "docgen-acorn", "&&">> \o deploy>>,
                  !.devDependencies =
                      <<(IF p.devDependencies = <<>> THEN {} ELSE p.devDependencies[1])
                            \cup {"npm-run-all"}>>]

\* lines 243-249: /"name":\s*"[^"]*"/ replaced by the project name
UpdatedWrangler(text, projectName) ==
    ReplaceFirst(text, "name", Piece("name", projectName))

\* lines 254-258: /^# [^\n]+/ matches at the start of the file only
UpdatedHeading(text, projectName) ==
    IF text # <<>> /\ text[1].k = "h1"
    THEN [text EXCEPT ![1] = Piece("h1", projectName)]
    ELSE text

\* lines 252-289
UpdatedReadme(text, projectName) ==
    LET cloned == ReplaceFirst(UpdatedHeading(text, projectName), "bunClone",
                               Piece("npxClone", projectName))
    IN  IF \E i \in 1..Len(cloned) : cloned[i].k = "docgenSection"
        THEN cloned
        ELSE Append(cloned, Piece("docgenSection", ""))

\* the three files of a project directory
ProjectFiles(p, w, r) == [pkg |-> p, wrangler |-> w, readme |-> r]

updateConfigurations(files, projectName) ==
    ProjectFiles(UpdatedPackageJson(files.pkg, projectName),
                 UpdatedWrangler(files.wrangler, projectName),
                 UpdatedReadme(files.readme, projectName))

----------------------------------------------------------------------------
(* updateConfigurations applied again and again to one project directory *)

PackageJsons ==
    {[name |-> "vite-react-template", docgenAcorn |-> d, deploy |-> dep,
      devDependencies |-> dev] :
        d \in {<<>>, <<<<"tsx", "scripts/docgen-acorn.ts", "src/api/index.ts">>>>},
        dep \in {<<>>,
                 <<<<"wrangler", "deploy">>>>,
                 <<<<"run-s", "build", "deploy:worker">>>>,
                 <<<<"npm", "run", "docgen-acorn", "&&", "wrangler", "deploy">>>>},
        dev \in {<<>>, <<{"wrangler"}>>, <<{"wrangler", "npm-run-all"}>>}}

Wranglers ==
    {<<Piece("name", "vite-react-template"), Piece("text", "main")>>,
     <<Piece("text", "main")>>}

ReadmePieces ==
    {Piece("h1", "WebSockets MCP Math Demo"),
     Piece("bunClone", "user/repo"),
     Piece("docgenSection", ""),
     Piece("text", "Overview")}

Readmes == SeqsUpTo(ReadmePieces, MaxPieces)

\* a project directory as `git clone` left it, and the project name of the
\* command line
InitConfig ==
    /\ FileIdle
    /\ ParamsIdle
    /\ DiscoverIdle
    /\ PrintIdle
    /\ argv = [name |-> "my-server", clone |-> "https://github.com/user/repo",
               skipDeploy |-> FALSE]
    /\ env = [SKIP_DEPLOY |-> "", PREFERRED_PM |-> "", npm_package_name |-> ""]
    /\ cliPc = "none"
    /\ details = <<>>
    /\ executed = <<>>
    /\ prompted = <<>>
    /\ cliOut = <<>>
    /\ cliErr = <<>>
    /\ cliExit = 0
    /\ rejected = FALSE
    /\ locals = <<>>
    /\ pkg \in {<<p>> : p \in PackageJsons}
    /\ wrangler \in Wranglers
    /\ readme \in Readmes
    /\ updates = 0
    /\ first = <<>>

\* one application of updateConfigurations(targetDir, projectName)
ApplyUpdateConfigurations ==
    /\ cliPc = "none"
    /\ pkg # <<>>
    /\ updates < MaxUpdates
    /\ LET after == updateConfigurations(ProjectFiles(pkg[1], wrangler, readme), argv.name)
       IN  /\ pkg' = <<after.pkg>>
           /\ wrangler' = after.wrangler
           /\ readme' = after.readme
           /\ first' = IF updates = 0 THEN <<after>> ELSE first
    /\ updates' = updates + 1
    /\ UNCHANGED <<fileVars, paramVars, discVars, cliVars, printVars>>

NextConfig == ApplyUpdateConfigurations

SpecConfig == InitConfig /\ [][NextConfig]_vars

\* C30: applied again with the same project name to the same directory,
\* updateConfigurations leaves package.json, wrangler.jsonc and README.md as
\* the first application left them.
C30_UpdateConfigurationsIdempotent ==
    updates >= 2 => ProjectFiles(pkg[1], wrangler, readme) = first[1]

----------------------------------------------------------------------------
(* print-mcp-json.ts, run as a script: printMcpJson(undefined, process.argv[2]) *)

\* a console.log of the CLI or of print-mcp-json: the configuration JSON, or
\* one of the fixed messages
Line(kind, config) == [kind |-> kind, config |-> config]

\* the mcpConfig object: one entry of mcpServers
McpConfig(projectName, execPath, workerUrl, targetDir) ==
    [key |-> projectName,
     command |-> execPath,
     args |-> <<"run", projectName, workerUrl, targetDir>>]

\* `https://${projectName}.workers.dev`
DefaultWorkerUrl(projectName) == <<"https://", projectName, ".workers.dev">>

PrintRevisions == {"current", "required-url"}

PrintNames == {"", "my-server", "other-server", "vite-react-template"}

PrintUrls == {<<>>, <<"https://my-server.user.workers.dev">>, <<"http://localhost:8787">>}

WorkingDirs == {"/home/user/my-server", "/tmp/project"}

\* what npmWhich(targetDir).sync("workers-mcp") gives: <<>> when it throws
ExecPaths ==
    {<<>>, <<"node_modules/.bin/workers-mcp">>, <<"/usr/local/bin/workers-mcp">>}

\* the first parameter of printMcpJson when the script passes undefined: the
\* default value of template/scripts/print-mcp-json.ts, and no default in the
\* revision where the URL is required
PrintProjectName(rev, e) ==
    IF rev = "current" THEN e.npm_package_name ELSE ""

InitPrint ==
    /\ FileIdle
    /\ ParamsIdle
    /\ DiscoverIdle
    /\ ConfigIdle
    /\ argv = [name |-> "", clone |-> "", skipDeploy |-> FALSE]
    /\ env \in {[SKIP_DEPLOY |-> "", PREFERRED_PM |-> "", npm_package_name |-> n] :
                   n \in PrintNames}
    /\ cliPc = "none"
    /\ details = <<>>
    /\ executed = <<>>
    /\ prompted = <<>>
    /\ cliOut = <<>>
    /\ cliErr = <<>>
    /\ cliExit = 0
    /\ rejected = FALSE
    /\ locals = <<>>
    /\ printArgv \in PrintUrls
    /\ printRevision \in PrintRevisions
    /\ cwd \in WorkingDirs
    /\ printPc = "start"

PrintMcpJson ==
    /\ printPc = "start"
    /\ \E execPath \in ExecPaths :
           LET projectName == PrintProjectName(printRevision, env)
               finalWorkerUrl == IF printArgv # <<>> THEN printArgv
                                 ELSE DefaultWorkerUrl(projectName)
           IN  IF projectName = ""
               THEN /\ cliErr' = cliErr \o <<"Project name is required", "Usage">>
                    /\ cliExit' = 1
                    /\ UNCHANGED cliOut
               ELSE IF printRevision = "required-url" /\ printArgv = <<>>
               THEN /\ cliErr' = cliErr \o <<"Worker URL is required", "Usage">>
                    /\ cliExit' = 1
                    /\ UNCHANGED cliOut
               ELSE IF execPath = <<>>
               THEN /\ cliErr' = Append(cliErr, "Error generating MCP configuration:")
                    /\ cliExit' = 1
                    /\ UNCHANGED cliOut
               ELSE /\ cliOut' = cliOut \o
                           <<Line("config", <<McpConfig(projectName, execPath,
                                                        finalWorkerUrl, cwd)>>),
                             Line("MCP configuration ready:", <<>>)>>
                    /\ UNCHANGED <<cliErr, cliExit>>
    /\ printPc' = "exited"
    /\ UNCHANGED <<argv, env, cliPc, details, executed, prompted, rejected, locals>>
    /\ UNCHANGED <<printArgv, printRevision, cwd>>
    /\ UNCHANGED <<fileVars, paramVars, discVars, configVars>>

NextPrint == PrintMcpJson

SpecPrint == InitPrint /\ [][NextPrint]_vars

\* the configurations printed so far
Configs == {cliOut[i].config[1] : i \in {j \in 1..Len(cliOut) : cliOut[j].kind = "config"}}

\* C23: run as a script in a project whose name is available, print-mcp-json
\* prints one configuration keyed by the project name with the args
\* ["run", projectName, workerUrl, cwd], the URL being the one of the command
\* line when there is one and https://<projectName>.workers.dev otherwise; it
\* exits with code 1, printing no configuration, only when no project name is
\* available.
C23_PrintsConfiguration ==
    printPc = "exited"
        => LET projectName == env.npm_package_name
               workerUrl == IF printArgv # <<>> THEN printArgv
                            ELSE <<"https://", projectName, ".workers.dev">>
           IN  IF projectName = ""
               THEN cliExit = 1 /\ Configs = {}
               ELSE /\ cliExit = 0
                    /\ Cardinality(Configs) = 1
                    /\ \A c \in Configs :
                           /\ c.key = projectName
                           /\ c.args = <<"run", projectName, workerUrl, cwd>>

----------------------------------------------------------------------------
(* cli.ts: main() and the functions it calls, one run of the CLI *)

PACKAGE_MANAGERS == {"bun", "npm", "pnpm", "yarn"}

CliNames == {"", "my-server"}

CloneUrls == {"", "https://github.com/user/repo"}

PreferredPms == {"", "bun", "npm", "pnpm", "yarn", "deno"}

\* what the user gives a text or select prompt: <<>> when the prompt is
\* cancelled, else <<the answer>>
NameAnswers == {<<>>, <<"my-server">>}
PmAnswers == {<<>>, <<"pnpm">>, <<"yarn">>}
WorkerUrlAnswers == {<<>>, <<"https://my-server.user.workers.dev">>}

Prompt(name, answer) == [name |-> name, answer |-> answer]

Exec(cmd, ok) == [cmd |-> cmd, ok |-> ok]

\* execSync of the commands in order; it throws at the first command that
\* fails (failAt = 0: none fails)
Run(commands, failAt) ==
    [i \in 1..(IF failAt = 0 THEN Len(commands) ELSE failAt) |->
         Exec(commands[i], i # failAt)]

Localhost == <<"http://localhost:8787">>

\* join(process.cwd(), projectName)
TargetDir(projectName) == <<"cwd", projectName>>

TemplateFiles ==
    ProjectFiles([name |-> "vite-react-template",
                  docgenAcorn |-> <<<<"tsx", "scripts/docgen-acorn.ts", "src/api/index.ts">>>>,
                  deploy |-> <<<<"npm", "run", "build", "&&", "wrangler", "deploy", "&&",
                                 "npm", "run", "post-deploy">>>>,
                  devDependencies |-> <<{"npm-run-all", "wrangler"}>>],
                 <<Piece("name", "vite-react-template"), Piece("text", "main")>>,
                 <<Piece("h1", "WebSockets MCP Math Demo"), Piece("text", "Overview")>>)

\* the repository `git clone` fetches
ClonedRepo ==
    ProjectFiles([name |-> "repo", docgenAcorn |-> <<>>,
                  deploy |-> <<<<"wrangler", "deploy">>>>,
                  devDependencies |-> <<{"wrangler"}>>],
                 <<Piece("name", "repo"), Piece("text", "main")>>,
                 <<Piece("h1", "repo"), Piece("bunClone", "user/repo")>>)

InitCli ==
    /\ FileIdle
    /\ ParamsIdle
    /\ DiscoverIdle
    /\ ConfigIdle
    /\ PrintIdle
    /\ argv \in [name : CliNames, clone : CloneUrls, skipDeploy : BOOLEAN]
    /\ env \in [SKIP_DEPLOY : {"", "true"}, PREFERRED_PM : PreferredPms,
                npm_package_name : {""}]
    /\ cliPc = "start"
    /\ details = <<>>
    /\ executed = <<>>
    /\ prompted = <<>>
    /\ cliOut = <<>>
    /\ cliErr = <<>>
    /\ cliExit = 0
    /\ rejected = FALSE
    /\ locals = <<>>

\* process.exit(1) after a console.error
ExitWith(message) ==
    /\ cliErr' = Append(cliErr, message)
    /\ cliExit' = 1
    /\ cliPc' = "exited"

\* the catch of main
CatchOfMain == ExitWith("Error creating project:")

\* a getProjectDetails that asks for the package manager whatever the environment says
UsesPreferredPm_Never(preferredPm) == FALSE

\* lines 149-152: PREFERRED_PM is taken when it names a package manager
UsesPreferredPm(preferredPm) == preferredPm \in PACKAGE_MANAGERS

Text(answer) == IF answer = <<>> THEN "" ELSE answer[1]

GetProjectDetails ==
    /\ cliPc = "start"
    /\ \E nameAnswer \in NameAnswers, pmAnswer \in PmAnswers :
           LET isCloning == argv.clone # ""
               askName == argv.name = ""
               projectName == IF askName THEN Text(nameAnswer) ELSE argv.name
               skipDeploy == argv.skipDeploy \/ env.SKIP_DEPLOY = "true"
               askPm == ~UsesPreferredPm(env.PREFERRED_PM)
               packageManager == IF askPm THEN Text(pmAnswer) ELSE env.PREFERRED_PM
               nameAsked == IF askName THEN <<Prompt("projectName", nameAnswer)>> ELSE <<>>
               pmAsked == IF askPm THEN <<Prompt("packageManager", pmAnswer)>> ELSE <<>>
           IN  IF projectName = ""
               THEN /\ prompted' = prompted \o nameAsked
                    /\ ExitWith("Project name is required")
                    /\ UNCHANGED details
               ELSE IF packageManager = ""
               THEN /\ prompted' = prompted \o nameAsked \o pmAsked
                    /\ ExitWith("Package manager selection is required")
                    /\ UNCHANGED details
               ELSE /\ prompted' = prompted \o nameAsked \o pmAsked
                    /\ details' = <<[projectName |-> projectName,
                                     packageManager |-> packageManager,
                                     githubUrl |-> argv.clone,
                                     isCloning |-> isCloning,
                                     skipDeploy |-> skipDeploy]>>
                    /\ cliPc' = "details"
                    /\ UNCHANGED <<cliErr, cliExit>>
    /\ UNCHANGED <<argv, env, executed, cliOut, rejected, locals>>
    /\ UNCHANGED <<fileVars, paramVars, discVars, configVars, printVars>>

CloneCommands ==
    <<"git clone", "rm -rf .git", "git init -b main", "install",
      "workers-mcp secret generate", "workers-mcp secret upload", "docgen-acorn",
      "deploy">>

\* cloneExistingServer, with the catch of main when it throws;
\* updateConfigurations runs after the third command
CloneExistingServer ==
    /\ cliPc = "details"
    /\ details[1].isCloning /\ details[1].githubUrl # ""
    /\ \E failAt \in 0..Len(CloneCommands), workerUrl \in WorkerUrlAnswers,
          execPath \in ExecPaths :
           LET updated == failAt = 0 \/ failAt > 3
               files == IF updated
                        THEN updateConfigurations(ClonedRepo, details[1].projectName)
                        ELSE ClonedRepo
           IN  /\ executed' = executed \o Run(CloneCommands, failAt)
               /\ IF failAt = 1
                  THEN UNCHANGED <<pkg, wrangler, readme>>
                  ELSE /\ pkg' = <<files.pkg>>
                       /\ wrangler' = files.wrangler
                       /\ readme' = files.readme
               /\ updates' = IF updated THEN updates + 1 ELSE updates
               /\ first' = IF updated THEN <<files>> ELSE first
               /\ IF failAt # 0
                  THEN /\ CatchOfMain
                       /\ UNCHANGED <<prompted, locals>>
                  ELSE /\ prompted' = Append(prompted, Prompt("workerUrl", workerUrl))
                       /\ IF workerUrl = <<>>
                          THEN /\ ExitWith("Worker URL is required")
                               /\ UNCHANGED locals
                          ELSE IF execPath = <<>>
                          THEN /\ CatchOfMain
                               /\ UNCHANGED locals
                          ELSE /\ locals' = <<[execPath |-> execPath,
                                               customWorkerUrl |-> <<>>]>>
                               /\ cliPc' = "cloned"
                               /\ UNCHANGED <<cliErr, cliExit>>
    /\ UNCHANGED <<argv, env, details, cliOut, rejected>>
    /\ UNCHANGED <<fileVars, paramVars, discVars, printVars>>

\* main, lines 527-540: the second prompt for the worker URL
AskWorkerUrl ==
    /\ cliPc = "cloned"
    /\ \E workerUrl \in WorkerUrlAnswers :
           /\ prompted' = Append(prompted, Prompt("workerUrl", workerUrl))
           /\ locals' = <<[locals[1] EXCEPT !.customWorkerUrl = workerUrl]>>
    /\ cliPc' = "final"
    /\ UNCHANGED <<argv, env, details, executed, cliOut, cliErr, cliExit, rejected>>
    /\ UNCHANGED <<fileVars, paramVars, discVars, configVars, printVars>>

\* setupProjectFiles: getTemplateDir throws when no template directory exists
SetupProjectFiles ==
    /\ cliPc = "details"
    /\ ~(details[1].isCloning /\ details[1].githubUrl # "")
    /\ \E found \in BOOLEAN :
           IF found
           THEN /\ pkg' = <<TemplateFiles.pkg>>
                /\ wrangler' = TemplateFiles.wrangler
                /\ readme' = TemplateFiles.readme
                /\ cliPc' = "copied"
                /\ UNCHANGED <<cliErr, cliExit>>
           ELSE /\ CatchOfMain
                /\ UNCHANGED <<pkg, wrangler, readme>>
    /\ UNCHANGED <<updates, first>>
    /\ UNCHANGED <<argv, env, details, executed, prompted, cliOut, rejected, locals>>
    /\ UNCHANGED <<fileVars, paramVars, discVars, printVars>>

UpdateConfigurations ==
    /\ cliPc = "copied"
    /\ LET after == updateConfigurations(ProjectFiles(pkg[1], wrangler, readme),
                                         details[1].projectName)
       IN  /\ pkg' = <<after.pkg>>
           /\ wrangler' = after.wrangler
           /\ readme' = after.readme
           /\ first' = IF updates = 0 THEN <<after>> ELSE first
    /\ updates' = updates + 1
    /\ cliPc' = "configured"
    /\ UNCHANGED <<argv, env, details, executed, prompted, cliOut, cliErr, cliExit,
                   rejected, locals>>
    /\ UNCHANGED <<fileVars, paramVars, discVars, printVars>>

DependencyCommands == <<"git init -b main", "install">>

SetupDependencies ==
    /\ cliPc = "configured"
    /\ \E failAt \in 0..Len(DependencyCommands) :
           /\ executed' = executed \o Run(DependencyCommands, failAt)
           /\ IF failAt # 0
              THEN CatchOfMain
              ELSE /\ cliPc' = "installed"
                   /\ UNCHANGED <<cliErr, cliExit>>
    /\ UNCHANGED <<argv, env, details, prompted, cliOut, rejected, locals>>
    /\ UNCHANGED <<fileVars, paramVars, discVars, configVars, printVars>>

\* main, lines 546-569: the skip-deploy branch of template mode
SkipDeployment ==
    /\ cliPc = "installed"
    /\ details[1].skipDeploy
    /\ \E execPath \in ExecPaths :
           IF execPath = <<>>
           THEN /\ CatchOfMain
                /\ UNCHANGED locals
           ELSE /\ locals' = <<[execPath |-> execPath, customWorkerUrl |-> Localhost]>>
                /\ cliPc' = "final"
                /\ UNCHANGED <<cliErr, cliExit>>
    /\ UNCHANGED <<argv, env, details, executed, prompted, cliOut, rejected>>
    /\ UNCHANGED <<fileVars, paramVars, discVars, configVars, printVars>>

\* a setupMCPAndWorkers that deploys before the documentation is generated
SetupCommands_DeployFirst(skipDeploy) ==
    <<"workers-mcp secret generate", "workers-mcp secret upload", "deploy", "docgen-acorn">>

\* the commands of setupMCPAndWorkers, in the order of its execSync calls
SetupCommands(skipDeploy) ==
    IF skipDeploy
    THEN <<"docgen-acorn", "workers-mcp secret generate">>
    ELSE <<"docgen-acorn", "workers-mcp secret generate", "workers-mcp secret upload",
           "deploy">>

\* setupMCPAndWorkers is an async function that main calls without await: its
\* body runs to its end (or to the execSync that throws) inside the call, and a
\* throw becomes the rejection of a promise that main never looks at
SetupMCPAndWorkers ==
    /\ cliPc = "installed"
    /\ ~details[1].skipDeploy
    /\ \E failAt \in 0..Len(SetupCommands(details[1].skipDeploy)) :
           /\ executed' = executed \o Run(SetupCommands(details[1].skipDeploy), failAt)
           /\ rejected' = (failAt # 0)
    /\ cliPc' = "setup"
    /\ UNCHANGED <<argv, env, details, prompted, cliOut, cliErr, cliExit, locals>>
    /\ UNCHANGED <<fileVars, paramVars, discVars, configVars, printVars>>

\* getMCPCommand and main, lines 576-578
GetMCPCommand ==
    /\ cliPc = "setup"
    /\ \E execPath \in ExecPaths :
           IF execPath = <<>>
           THEN /\ CatchOfMain
                /\ UNCHANGED locals
           ELSE /\ locals' = <<[execPath |-> execPath,
                                customWorkerUrl |->
                                    DefaultWorkerUrl(details[1].projectName)]>>
                /\ cliPc' = "final"
                /\ UNCHANGED <<cliErr, cliExit>>
    /\ UNCHANGED <<argv, env, details, executed, prompted, cliOut, rejected>>
    /\ UNCHANGED <<fileVars, paramVars, discVars, configVars, printVars>>

HandleFinalSteps ==
    /\ cliPc = "final"
    /\ LET projectName == details[1].projectName
           workerUrl == IF locals[1].customWorkerUrl # <<>>
                        THEN locals[1].customWorkerUrl
                        ELSE DefaultWorkerUrl(projectName)
       IN  cliOut' = cliOut \o
               <<Line("config", <<McpConfig(projectName, locals[1].execPath, workerUrl,
                                            TargetDir(projectName))>>),
                 Line("MCP server created successfully!", <<>>)>>
    /\ cliPc' = "returned"
    /\ UNCHANGED <<argv, env, details, executed, prompted, cliErr, cliExit, rejected,
                   locals>>
    /\ UNCHANGED <<fileVars, paramVars, discVars, configVars, printVars>>

\* main has returned: the process ends, with the runtime's report and exit
\* code 1 when a rejected promise was left unhandled
ProcessEnd ==
    /\ cliPc = "returned"
    /\ IF rejected
       THEN /\ cliErr' = Append(cliErr, "Unhandled promise rejection")
            /\ cliExit' = 1
       ELSE UNCHANGED <<cliErr, cliExit>>
    /\ cliPc' = "exited"
    /\ UNCHANGED <<argv, env, details, executed, prompted, cliOut, rejected, locals>>
    /\ UNCHANGED <<fileVars, paramVars, discVars, configVars, printVars>>

NextCli ==
    \/ GetProjectDetails
    \/ CloneExistingServer
    \/ AskWorkerUrl
    \/ SetupProjectFiles
    \/ UpdateConfigurations
    \/ SetupDependencies
    \/ SkipDeployment
    \/ SetupMCPAndWorkers
    \/ GetMCPCommand
    \/ HandleFinalSteps
    \/ ProcessEnd

SpecCli == InitCli /\ [][NextCli]_vars


\* the CLI keeps running until it has ended
SpecCliFair == InitCli /\ [][NextCli]_vars /\ WF_vars(NextCli)

----------------------------------------------------------------------------
(* Properties of a run of the CLI (checked under SpecCli and SpecCliFair) *)

Executed(cmd) == \E i \in 1..Len(executed) : executed[i].cmd = cmd

\* C24: when --skip-deploy or SKIP_DEPLOY=true is set, in template mode and in
\* clone mode, neither the deploy command nor `workers-mcp secret upload` is
\* executed, and the configuration printed has the worker URL
\* http://localhost:8787.
C24_SkipDeployNeverDeploys ==
    (argv.skipDeploy \/ env.SKIP_DEPLOY = "true")
        => /\ ~Executed("deploy")
           /\ ~Executed("workers-mcp secret upload")
           /\ \A c \in Configs : c.args[3] = <<"http://localhost:8787">>

\* started with --name, without --clone, and PREFERRED_PM one of the four
NonInteractive ==
    /\ argv.name # ""
    /\ argv.clone = ""
    /\ env.PREFERRED_PM \in {"bun", "npm", "pnpm", "yarn"}

\* C25: started with --name and a PREFERRED_PM that is bun, npm, pnpm or yarn,
\* and without --clone, the CLI issues no prompt and runs to its end; with
\* --name and any other PREFERRED_PM (or none) the package-manager prompt is
\* issued, and an empty answer to it ends the run with exit code 1.
C25_PromptsOnlyWhenNeeded ==
    /\ [](NonInteractive => prompted = <<>>)
    /\ [](NonInteractive => <>(cliPc = "exited"))
    /\ []((/\ argv.name # ""
           /\ argv.clone = ""
           /\ env.PREFERRED_PM \notin {"bun", "npm", "pnpm", "yarn"}
           /\ cliPc # "start")
              => /\ prompted # <<>>
                 /\ prompted[1].name = "packageManager")
    /\ [](\A i \in 1..Len(prompted) :
              (prompted[i].name = "packageManager" /\ prompted[i].answer = <<>>)
                  => (cliPc = "exited" /\ cliExit = 1))

\* a run with --name and PREFERRED_PM=pnpm has printed its configuration and
\* ended, without a prompt
C25_Witness ==
    /\ NonInteractive
    /\ env.PREFERRED_PM = "pnpm"
    /\ cliPc = "exited"
    /\ cliExit = 0
    /\ Configs # {}
    /\ prompted = <<>>

\* command cmd has completed before the i-th command started
Before(cmd, i) ==
    \E j \in 1..(i - 1) : executed[j].cmd = cmd /\ executed[j].ok

\* C26: whenever the deploy command is executed, docgen-acorn,
\* `workers-mcp secret generate` and `workers-mcp secret upload` have each
\* completed before it starts, and secret generate came before secret upload.
C26_DeployComesLast ==
    \A i \in 1..Len(executed) :
        executed[i].cmd = "deploy"
            => /\ Before("docgen-acorn", i)
               /\ Before("workers-mcp secret generate", i)
               /\ Before("workers-mcp secret upload", i)
               /\ \E g, u \in 1..(i - 1) :
                      /\ g < u
                      /\ executed[g].cmd = "workers-mcp secret generate"
                      /\ executed[u].cmd = "workers-mcp secret upload"

\* template mode has deployed
C26_Witness ==
    /\ details # <<>>
    /\ ~details[1].isCloning
    /\ Len(executed) = 6
    /\ executed[6] = Exec("deploy", TRUE)

\* a command of setupMCPAndWorkers has failed
SetupStepFailed ==
    /\ details # <<>>
    /\ ~details[1].isCloning
    /\ \E i \in 1..Len(executed) :
           /\ ~executed[i].ok
           /\ executed[i].cmd \in {"docgen-acorn", "workers-mcp secret generate",
                                   "workers-mcp secret upload", "deploy"}

\* C27: when a step of setupMCPAndWorkers fails, the CLI prints neither the
\* MCP configuration nor 'MCP server created successfully', and it ends with
\* the report 'Error creating project' and exit code 1.
C27_SetupFailureIsReported ==
    SetupStepFailed
        => /\ \A i \in 1..Len(cliOut) :
                  cliOut[i].kind \notin {"config", "MCP server created successfully!"}
           /\ cliPc = "exited"
                  => /\ cliExit = 1
                     /\ \E i \in 1..Len(cliErr) : cliErr[i] = "Error creating project:"

====
